---- MODULE Spec2Model ----
(***************************************************************************)
(* Model of the rubin_changelog reconciliation engine:                     *)
(*   rubin_changelog/tag.py        Tag parsing, classification, ordering   *)
(*   rubin_changelog/changelog.py  ChangeLogData.process, merge_releases   *)
(* Strings the code parses (tag names, branch names, head refs, titles)    *)
(* are sequences of one-character strings, so that the regular             *)
(* expressions and the int()/format conversions are computed.              *)
(*                                                                         *)
(* tag.py line 106 reads "def is_weekly(self) - > bool:"; every caller     *)
(* (__hash__, desc, base_name, matches_release) uses is_daily(), which has *)
(* no other definition, so lines 106-107 are modelled as is_daily.         *)
(***************************************************************************)
EXTENDS Integers, Sequences, FiniteSets, TLC

VARIABLES
    raw1, raw2,     \* SpecTag: the two raw tag names under construction
    tag1, tag2,     \* SpecTag: the constructed Tag objects (NoTag before)
    tpc,            \* SpecTag: position of the tag scenario
    tags,           \* github['tags']: package -> sequence of tag records
    pulls,          \* github['pulls']: package -> set of pull records
    releaseType,    \* the cadence handed to process()
    order,          \* iteration order of self.tags.items()
    idx,            \* number of packages process() has consumed
    results,        \* process(): results dict (ordered keys + tables)
    tag_dates,      \* process(): tag_dates dict
    main,           \* process(): main dict (the "~main" bucket)
    last_weekly,    \* ChangeLogData.last_weekly
    merged,         \* merge_releases(): (result, packages) or NoMerge
    flags,          \* create_changelog(): [mergeReleases, mergeFirst]
    pc,             \* position in create_changelog
    attempt,        \* _fetch: repository -> failed attempts so far
    futures,        \* _get_package_repos: repository -> its future
    fetched,        \* _get_package_repos: the result dict being filled
    fpc,            \* position in _get_package_repos
    remote,         \* the nodes GitHub returns for one repository
    prev            \* the output of an earlier run on the same snapshot

vars == <<raw1, raw2, tag1, tag2, tpc, tags, pulls, releaseType, order, idx,
          results, tag_dates, main, last_weekly, merged, flags, pc,
          attempt, futures, fetched, fpc, remote, prev>>

\* the variables of _get_package_repos
fetchVars == <<attempt, futures, fetched, fpc>>

-----------------------------------------------------------------------------
(* Character-level strings *)

Digits == <<"0", "1", "2", "3", "4", "5", "6", "7", "8", "9">>

IsDigit(c) == \E i \in 1..10 : Digits[i] = c

DigitVal(c) == (CHOOSE i \in 1..10 : Digits[i] = c) - 1

\* int(s) for a non-empty string of digits
RECURSIVE ParseInt(_)
ParseInt(s) ==
    IF s = <<>> THEN 0
    ELSE 10 * ParseInt(SubSeq(s, 1, Len(s) - 1)) + DigitVal(s[Len(s)])

\* str(n) / f'{n}' for n >= 0
RECURSIVE Fmt(_)
Fmt(n) == IF n < 10 THEN <<Digits[n + 1]>>
          ELSE Fmt(n \div 10) \o <<Digits[(n % 10) + 1]>>

\* f'{n:02}'
Fmt02(n) == IF n < 10 THEN <<"0">> \o Fmt(n) ELSE Fmt(n)

\* f'{n:4}' (space padded to width 4)
RECURSIVE PadLeft(_, _)
PadLeft(s, w) == IF Len(s) >= w THEN s ELSE PadLeft(<<" ">> \o s, w)

CharAt(s, i) == IF i >= 1 /\ i <= Len(s) THEN s[i] ELSE ""

\* number of consecutive digits of s starting at position i
RECURSIVE DigitRun(_, _)
DigitRun(s, i) ==
    IF i >= 1 /\ i <= Len(s) /\ IsDigit(s[i]) THEN 1 + DigitRun(s, i + 1) ELSE 0

\* s[i:i+Len(lit)] == lit
LitAt(s, i, lit) ==
    /\ i >= 1
    /\ i + Len(lit) - 1 <= Len(s)
    /\ SubSeq(s, i, i + Len(lit) - 1) = lit

StartsWith(s, lit) == LitAt(s, 1, lit)

EndsWith(s, lit) == Len(s) >= Len(lit) /\ LitAt(s, Len(s) - Len(lit) + 1, lit)

\* s.replace(c, '') for a one-character c
RECURSIVE RemoveChar(_, _)
RemoveChar(s, c) ==
    IF s = <<>> THEN <<>>
    ELSE (IF Head(s) = c THEN <<>> ELSE <<Head(s)>>) \o RemoveChar(Tail(s), c)

\* s.upper() on the letters the model's strings use
Upper(s) ==
    [i \in 1..Len(s) |->
        CASE s[i] = "d" -> "D"
          [] s[i] = "m" -> "M"
          [] s[i] = "f" -> "F"
          [] s[i] = "i" -> "I"
          [] s[i] = "x" -> "X"
          [] s[i] = "u" -> "U"
          [] s[i] = "b" -> "B"
          [] s[i] = "g" -> "G"
          [] OTHER -> s[i]]

\* the character class [.|_] of the tag grammars
IsSep(c) == c \in {".", "|", "_"}

-----------------------------------------------------------------------------
(* tag.py: class Tag *)

WEEKLY == "WEEKLY"
REGULAR == "REGULAR"
DAILY == "DAILY"

\* conf.py changelog_conf, copied at import time by tag.py lines 298-302
discard_tag == {<<"2", "5", ".", "0", ".", "1", ".", "r", "c", "1">>}
first_tag == {<<"2", "5", ".", "0", ".", "1", ".", "r", "c", "2">>}

\* Python ints are unbounded; an ordering key k is held as the pair
\* <<k \div KeyBase, k % KeyBase>> so that 9999999999 fits TLC's integers
KeyBase == 1000000

Key(hi, lo) == <<hi + (lo \div KeyBase), lo % KeyBase>>

KeyLess(a, b) == a[1] < b[1] \/ (a[1] = b[1] /\ a[2] < b[2])

\* 9999999999, the value __hash__ returns for main
MainKey == <<9999, 999999>>

\* Tag.__init__ lines 49-61: the fields before classification
BlankTag(name) ==
    [name |-> name, valid |-> FALSE, is_weekly |-> FALSE, is_daily |-> FALSE,
     is_main |-> FALSE, major |-> -1, minor |-> -1, patch |-> -1, rc |-> -1,
     week |-> -1, year |-> -1, month |-> -1, day |-> -1, raised |-> FALSE]

\* Tag._weekly: ^w[.|_](\d{4})[_|.](\d{2})$
Tag_weekly(t) ==
    LET s == t.name
        m == /\ Len(s) = 9
             /\ s[1] = "w"
             /\ IsSep(s[2])
             /\ DigitRun(s, 3) = 4
             /\ IsSep(s[7])
             /\ DigitRun(s, 8) = 2
    IN  IF ~m THEN t
        ELSE [t EXCEPT !.year = ParseInt(SubSeq(s, 3, 6)),
                       !.week = ParseInt(SubSeq(s, 8, 9)),
                       !.is_weekly = TRUE,
                       !.valid = TRUE]

\* Tag._daily: ^w[.|_](\d{4})[_|.](\d{2}[_|.]\d{2})$ ; on a match
\* int(match[2]) is applied to "MM.DD" and raises
Tag_daily(t) ==
    LET s == t.name
        m == /\ Len(s) = 12
             /\ s[1] = "w"
             /\ IsSep(s[2])
             /\ DigitRun(s, 3) = 4
             /\ IsSep(s[7])
             /\ DigitRun(s, 8) = 2
             /\ IsSep(s[10])
             /\ DigitRun(s, 11) = 2
    IN  IF ~m THEN t
        ELSE [t EXCEPT !.year = ParseInt(SubSeq(s, 3, 6)), !.raised = TRUE]

\* Tag._regular: ^[v]?(\d+)([_|.]\d+)([_|.]\d+)?([_|.]rc(\d+))?$
Tag_regular(t) ==
    LET s == t.name
        isInt(g) == g # <<>> /\ DigitRun(g, 1) = Len(g)
        \* replace('.', '') and replace('_', '') of a group
        strip(g) == RemoveChar(RemoveChar(g, "."), "_")
        \* lines 153-155: the range of major
        Checked(u) ==
            IF u.major < 9 \/ u.major > 1000 THEN u
            ELSE [u EXCEPT !.valid = TRUE]
        \* lines 145-152: the int() conversions in their order; a
        \* ValueError leaves the fields already assigned
        Assign(major, g1, g2, rc) ==
            IF ~isInt(g1) THEN [t EXCEPT !.major = major]
            ELSE IF ~isInt(g2)
                 THEN [t EXCEPT !.major = major, !.minor = ParseInt(g1)]
            ELSE Checked([t EXCEPT !.major = major, !.minor = ParseInt(g1),
                                   !.patch = ParseInt(g2), !.rc = rc])
        \* the groups: major at p0, minor at p1, patch from p2 up to p3
        \* (absent when p3 = p2), n4 digits of rc after p3; $ follows
        Groups(p0, p1, p2, p3, n4) ==
            IF (IF n4 > 0 THEN p3 + 3 + n4 ELSE p3) # Len(s) + 1 THEN t
            ELSE Assign(ParseInt(SubSeq(s, p0, p1 - 1)),
                        strip(SubSeq(s, p1, p2 - 1)),
                        IF p3 > p2 THEN strip(SubSeq(s, p2, p3 - 1))
                        ELSE <<"0">>,
                        IF n4 > 0 THEN ParseInt(SubSeq(s, p3 + 3, p3 + 2 + n4))
                        ELSE 99)
        \* the digits of [_|.]\d+ at p, of [_|.]rc(\d+) at p; 0: no match
        sepDigits(p) == IF IsSep(CharAt(s, p)) THEN DigitRun(s, p + 1) ELSE 0
        rcDigits(p) ==
            IF IsSep(CharAt(s, p)) /\ LitAt(s, p + 1, <<"r", "c">>)
            THEN DigitRun(s, p + 3) ELSE 0
        AtRc(p0, p1, p2, p3) == Groups(p0, p1, p2, p3, rcDigits(p3))
        AtPatch(p0, p1, p2, n2) ==
            AtRc(p0, p1, p2, IF n2 > 0 THEN p2 + 1 + n2 ELSE p2)
        AtMinor(p0, p1, n1) ==
            IF n1 = 0 THEN t
            ELSE AtPatch(p0, p1, p1 + 1 + n1, sepDigits(p1 + 1 + n1))
        AtMajor(p0, n0) ==
            IF n0 = 0 THEN t ELSE AtMinor(p0, p0 + n0, sepDigits(p0 + n0))
        Start(p0) == AtMajor(p0, DigitRun(s, p0))
    IN  Start(IF CharAt(s, 1) = "v" THEN 2 ELSE 1)

\* Tag.__init__
Tag(name) ==
    LET t == BlankTag(name)
    IN  IF EndsWith(name, <<"m", "a", "i", "n">>)
        THEN [t EXCEPT !.valid = TRUE, !.is_main = TRUE]
        ELSE IF StartsWith(name, <<"w">>) THEN Tag_weekly(t)
        ELSE IF StartsWith(name, <<"d">>) THEN Tag_daily(t)
        ELSE Tag_regular(t)

is_weekly(t) == t.is_main \/ t.is_weekly

is_daily(t) == t.is_main \/ t.is_daily

is_regular(t) == ~t.is_weekly \/ t.is_main

is_release(t) == t.rc = 99

\* is_valid without the discard list
is_valid_parsed(t) == t.valid

is_valid(t) == t.valid /\ t.name \notin discard_tag

\* Tag.__hash__, the ordering key behind __eq__/__lt__/__gt__
Tag_hash(t) ==
    IF t.is_main THEN MainKey
    ELSE IF is_weekly(t) THEN Key(0, t.year * 100 + t.week)
    ELSE IF is_daily(t) THEN Key(0, t.year * 10000 + t.month * 10 + t.day)
    ELSE Key(t.major, t.minor * 10000 + t.patch * 100 + t.rc)

Tag_lt(a, b) == KeyLess(Tag_hash(a), Tag_hash(b))
Tag_gt(a, b) == KeyLess(Tag_hash(b), Tag_hash(a))
Tag_eq(a, b) == Tag_hash(a) = Tag_hash(b)

\* Tag.desc
desc(t) ==
    IF is_weekly(t) THEN [kind |-> "weekly", version |-> <<t.year, t.week>>]
    ELSE IF is_daily(t)
         THEN [kind |-> "daily", version |-> <<t.year, t.month, t.day>>]
    ELSE IF is_regular(t)
         THEN [kind |-> "regular",
               version |-> <<t.major, t.minor, t.patch, t.rc>>]
    ELSE [kind |-> "main", version |-> MainKey]

\* f'{n}' for an int that may be the initial -1
FmtInt(n) == IF n < 0 THEN <<"-">> \o Fmt(0 - n) ELSE Fmt(n)

\* base_name that keeps the rc suffix of a release candidate
base_name_rc(t) ==
    IF is_regular(t)
    THEN FmtInt(t.major) \o <<".">> \o FmtInt(t.minor) \o <<".">> \o FmtInt(t.patch)
         \o (IF t.rc = 99 THEN <<>> ELSE <<".", "r", "c">> \o FmtInt(t.rc))
    ELSE IF is_weekly(t)
    THEN <<"w", ".">> \o PadLeft(FmtInt(t.year), 4) \o <<".">> \o Fmt02(t.week)
    ELSE <<"m", "a", "i", "n">>

\* Tag.base_name
base_name(t) ==
    IF is_regular(t)
    THEN FmtInt(t.major) \o <<".">> \o FmtInt(t.minor) \o <<".">> \o FmtInt(t.patch)
    ELSE IF is_weekly(t)
    THEN <<"w", ".">> \o PadLeft(FmtInt(t.year), 4) \o <<".">> \o Fmt02(t.week)
    ELSE IF is_daily(t)
    THEN <<"d", ".">> \o PadLeft(FmtInt(t.year), 4) \o <<".">> \o Fmt02(t.month)
             \o <<".">> \o Fmt02(t.day)
    ELSE <<"m", "a", "i", "n">>

\* is_first_release_tag without the first-tag list
is_first_release_tag_rc1(t) ==
    IF is_regular(t) THEN t.rc = 1 /\ t.patch = 0 ELSE FALSE

\* Tag.is_first_release_tag
is_first_release_tag(t) ==
    IF is_regular(t)
    THEN \/ (t.rc = 1 /\ t.patch = 0)
         \/ (t.name \in first_tag /\ t.name \notin discard_tag)
    ELSE FALSE

\* matches_release
matches_release(t, release) ==
    \/ is_weekly(t) /\ release = WEEKLY
    \/ is_daily(t) /\ release = DAILY
    \/ is_regular(t) /\ release = REGULAR

-----------------------------------------------------------------------------
(* Python dict: insertion-ordered keys and a value per key *)

EmptyDict == [keys |-> <<>>, val |-> <<>>]

Has(d, k) == k \in DOMAIN d.val

Put(d, k, v) ==
    [keys |-> IF Has(d, k) THEN d.keys ELSE Append(d.keys, k),
     val  |-> (k :> v) @@ d.val]

\* an unordered inner dict: d[k] = v
Set(f, k, v) == (k :> v) @@ f

None == [kind |-> "None", text |-> <<>>]

-----------------------------------------------------------------------------
(* changelog.py: helpers *)

Untagged == <<"~", "u", "n", "t", "a", "g", "g", "e", "d">>
TildeMain == <<"~", "m", "a", "i", "n">>
MainBranch == <<"m", "a", "i", "n">>

\* a ticket key of a results table: valid_ticket returns the digits as a
\* str, _ticket_number returns an int; Python keeps '100' and 100 apart
StrKey(digits) == [kind |-> "str", text |-> digits]
IntKey(n) == [kind |-> "int", text |-> Fmt(n)]

\* valid_ticket: re.search(r'.*DM-(\d+).*', name); the greedy leading .*
\* selects the last "DM-" that is followed by a digit
valid_ticket(name) ==
    LET hits == {i \in 1..Len(name) :
                    LitAt(name, i, <<"D", "M", "-">>) /\ DigitRun(name, i + 3) > 0}
    IN  IF hits = {} THEN None
        ELSE LET i == CHOOSE h \in hits : \A g \in hits : g <= h
             IN  StrKey(SubSeq(name, i + 3, i + 2 + DigitRun(name, i + 3)))

\* ChangeLogData._ticket_number: re.search(r'DM[\s*|-](\d+)', title.upper())
ticket_number(title) ==
    LET u == Upper(title)
        hits == {i \in 1..Len(u) :
                    /\ LitAt(u, i, <<"D", "M">>)
                    /\ CharAt(u, i + 2) \in {" ", "*", "|", "-"}
                    /\ DigitRun(u, i + 3) > 0}
    IN  IF hits = {} THEN None
        ELSE LET i == CHOOSE h \in hits : \A g \in hits : h <= g
             IN  IntKey(ParseInt(SubSeq(u, i + 3, i + 2 + DigitRun(u, i + 3))))

\* valid_branch that accepts every base branch
valid_branch_any(name, branch) == TRUE

\* ChangeLogData.valid_branch: name == branch or
\* re.search(r'v?\d+\.\d+\.x', name)
valid_branch(name, branch) ==
    \/ name = branch
    \/ \E i \in 1..Len(name) :
          LET n1 == DigitRun(name, i)
              n2 == DigitRun(name, i + n1 + 1)
          IN  /\ n1 > 0
              /\ CharAt(name, i + n1) = "."
              /\ n2 > 0
              /\ LitAt(name, i + n1 + 1 + n2, <<".", "x">>)

\* SortedList.add of one Tag: after every element that is not greater
RECURSIVE InsertSorted(_, _)
InsertSorted(sorted, t) ==
    IF sorted = <<>> THEN <<t>>
    ELSE IF Tag_lt(t, Head(sorted)) THEN <<t>> \o sorted
    ELSE <<Head(sorted)>> \o InsertSorted(Tail(sorted), t)

RECURSIVE SortedTags(_, _)
SortedTags(names, acc) ==
    IF names = <<>> THEN acc
    ELSE SortedTags(Tail(names), InsertSorted(acc, Tag(Head(names))))

\* sort_tags
sort_tags(names) ==
    LET Names(sorted_list) ==
            [i \in 1..Len(sorted_list) |->
                IF is_release(sorted_list[i])
                THEN RemoveChar(sorted_list[i].name, "v")
                ELSE sorted_list[i].name]
    IN  Names(SortedTags(names, <<>>))

-----------------------------------------------------------------------------
(* changelog.py: ChangeLogData *)

\* the characters of the model's strings in code-point order
Ascii == <<" ", "*", "-", ".", "/", "0", "1", "2", "3", "4", "5", "6", "7",
           "8", "9", "D", "M", "_", "a", "b", "c", "d", "e", "f", "g", "i",
           "l", "m", "n", "o", "p", "r", "t", "u", "v", "w", "x", "|", "~">>

Ord(c) == CHOOSE i \in 1..Len(Ascii) : Ascii[i] = c

\* Python str <
RECURSIVE StrLess(_, _)
StrLess(a, b) ==
    IF b = <<>> THEN FALSE
    ELSE IF a = <<>> THEN TRUE
    ELSE IF Head(a) = Head(b) THEN StrLess(Tail(a), Tail(b))
    ELSE Ord(Head(a)) < Ord(Head(b))

\* the keys of a SortedDict with str keys, in iteration order
RECURSIVE SortedKeys(_)
SortedKeys(S) ==
    IF S = {} THEN <<>>
    ELSE LET k == CHOOSE x \in S : \A y \in S \ {x} : StrLess(x, y)
         IN  <<k>> \o SortedKeys(S \ {k})

NoTags == [names |-> <<>>, date |-> 0]
NoDate == 0

\* a target that is no commit has no oid
NoOid == 0

\* self.repos[self.repo_map[pkg]][2], the ref of the repository in
\* repos.yaml (get_repo_yaml: 'main' unless the entry names a ref)
RepoRef(pkg) == MainBranch

\* self.jira_tickets: the summaries of the tickets the tracker knows
JiraKnown == {<<"1", "0", "0">>}

jira_title(ticket_nr) ==
    IF ticket_nr.text \in JiraKnown THEN <<"summary">> \o ticket_nr.text
    ELSE <<>>

\* _process_tags lines 106-132, the body of the loop over the tag list;
\* acc = [tag_dict (oid -> [names, committedDate]),
\*        dates (tag_dates: name -> tagDate)]
ScanTag(t, release, acc) ==
    LET \* lines 123-132: a kept tag enters tag_dates and tag_dict
        Record(name) ==
            [dates |-> IF Has(acc.dates, name) THEN acc.dates
                       ELSE Put(acc.dates, name, t.tagDate),
             tag_dict |->
                 IF t.oid \in DOMAIN acc.tag_dict
                 THEN Set(acc.tag_dict, t.oid,
                          [acc.tag_dict[t.oid] EXCEPT !.names = Append(@, name)])
                 ELSE Set(acc.tag_dict, t.oid,
                          [names |-> <<name>>, date |-> t.committedDate])]
        \* lines 121-124: a tag whose target has no commit is passed over
        Target(name) == IF t.oid = NoOid THEN acc ELSE Record(name)
        \* lines 116-120
        Filter(name, rel_tag) ==
            IF is_valid(rel_tag) /\ matches_release(rel_tag, release)
            THEN Target(name) ELSE acc
        Renamed(name) == Filter(name, Tag(name))
        \* lines 110-112
        Named(rtag) ==
            Renamed(IF is_regular(rtag) /\ StartsWith(t.name, <<"v">>)
                    THEN RemoveChar(t.name, "v") ELSE t.name)
    IN  Named(Tag(t.name))

\* _process_tags lines 105-132: one pass over the tag list
RECURSIVE ScanTags(_, _, _)
ScanTags(tag_list, release, acc) ==
    IF tag_list = <<>> THEN acc
    ELSE ScanTags(Tail(tag_list), release,
                  ScanTag(Head(tag_list), release, acc))

\* _process_tags: (result, tag_dates); result maps every valid branch of
\* the pull list to its merges (date -> (ticket, tags, url, title))
process_tags(tag_list, pull_list, release, pkg) ==
    LET names == {p.branch : p \in pull_list}
        kept == {b \in names : valid_branch(b, RepoRef(pkg))}
        item(p, tag_dict) ==
            [date |-> p.date, ticket |-> p.head,
             tags |-> IF p.oid \in DOMAIN tag_dict
                      THEN [tag_dict[p.oid] EXCEPT !.names = sort_tags(@)]
                      ELSE NoTags,
             url |-> p.url, title |-> p.title]
        Result(scan) ==
            [merges |-> [b \in kept |->
                            {item(p, scan.tag_dict) :
                                p \in {q \in pull_list : q.branch = b}}],
             dates |-> scan.dates]
    IN  Result(ScanTags(tag_list, release,
                        [tag_dict |-> <<>>, dates |-> EmptyDict]))

\* process lines 164-169: fold one package's tag dates into tag_dates,
\* keeping the latest date per release name
RECURSIVE MergeDates(_, _, _)
MergeDates(tdates, dates, i) ==
    IF i > Len(dates.keys) THEN tdates
    ELSE LET rel == dates.keys[i]
             date == dates.val[rel]
         IN  MergeDates(IF ~Has(tdates, rel) \/ tdates.val[rel] < date
                        THEN Put(tdates, rel, date) ELSE tdates,
                        dates, i + 1)

NewRow == [title |-> <<>>, pkgs |-> {}, date |-> NoDate]

\* lines 194-202 and 217-225: accumulate one merge into a ticket table
AddRow(table, ticket_nr, branch, title, pkg, url, merge_date) ==
    LET byBranch == IF ticket_nr \in DOMAIN table THEN table[ticket_nr] ELSE <<>>
        row == IF branch \in DOMAIN byBranch THEN byBranch[branch] ELSE NewRow
        row2 == [title |-> title,
                 pkgs |-> row.pkgs \cup {<<pkg, url>>},
                 date |-> IF row.date < merge_date THEN merge_date ELSE row.date]
    IN  Set(table, ticket_nr, Set(byBranch, branch, row2))

\* resolve_ticket that prefers the number of the title
resolve_ticket_title_first(head, title) ==
    IF ticket_number(title) # None THEN ticket_number(title)
    ELSE valid_ticket(head)

\* process lines 175-179: the ticket number of a merge, from the head
\* ref first and from the title otherwise
resolve_ticket(head, title) ==
    LET Choose(ticket_nr, title_ticket_nr) ==
            IF ticket_nr = None /\ title_ticket_nr # None THEN title_ticket_nr
            ELSE ticket_nr
    IN  Choose(valid_ticket(head), ticket_number(title))

\* next_current that enters a tag's release only after the tagged merge:
\* the tagged merge itself stays in the release the walk was in
next_current_stale(current, item) == current

\* process lines 183-189: the release the walk is in after this merge
next_current(current, item) ==
    IF item.tags # NoTags THEN item.tags.names[1] ELSE current

\* process lines 174-225: the body of the loop over one branch's merges;
\* st = [results, main, current]
ProcessMerge(st, item, branch, pkg, release, dates, lw) ==
    LET weekly_date == IF Has(dates, lw) THEN dates.val[lw] ELSE NoDate
        \* lines 203-225: the "~main" bucket of a weekly run
        toMain(current) ==
            /\ branch = RepoRef(pkg)
            /\ current = Untagged
            /\ release = WEEKLY
            /\ weekly_date # NoDate
            /\ ~(item.date < weekly_date)
        \* lines 192-225
        Record(ticket_nr, ticket_title, current, res1) ==
            IF ticket_nr = None
            THEN [results |-> res1, main |-> st.main, current |-> current]
            ELSE [results |->
                      Put(res1, current,
                          AddRow(res1.val[current], ticket_nr, branch,
                                 ticket_title, pkg, item.url, item.date)),
                  main |-> IF toMain(current)
                           THEN AddRow(st.main, ticket_nr, branch,
                                       ticket_title, pkg, item.url, item.date)
                           ELSE st.main,
                  current |-> current]
        \* lines 183-191
        Enter(ticket_nr, current) ==
            Record(ticket_nr, jira_title(ticket_nr), current,
                   IF item.tags # NoTags /\ ~Has(st.results, current)
                   THEN Put(st.results, current, <<>>) ELSE st.results)
    IN  Enter(resolve_ticket(item.ticket, item.title),
              next_current(st.current, item))

\* process line 173: for merge_date in reversed(merge)
RECURSIVE WalkBranch(_, _, _, _, _, _, _)
WalkBranch(st, items, branch, pkg, release, dates, lw) ==
    IF items = {} THEN st
    ELSE LET item == CHOOSE x \in items : \A y \in items : y.date <= x.date
         IN  WalkBranch(ProcessMerge(st, item, branch, pkg, release, dates,
                                     lw),
                        items \ {item}, branch, pkg, release, dates, lw)

\* a branch that starts in the release the previous branch ended in
branch_start_carried(st) == st

\* process line 171: current = '~untagged'
branch_start(st) == [st EXCEPT !.current = Untagged]

\* process lines 170-172: for branch in merges.keys()
RECURSIVE WalkBranches(_, _, _, _, _, _, _)
WalkBranches(st, branches, merges, pkg, release, dates, lw) ==
    IF branches = <<>> THEN st
    ELSE LET b == Head(branches)
             st1 == WalkBranch(branch_start(st), merges[b], b,
                               pkg, release, dates, lw)
         IN  WalkBranches(st1, Tail(branches), merges, pkg, release, dates,
                          lw)

\* process lines 161-225: one iteration of "for pkg, tag in self.tags.items()"
process_pkg(res, tdates, mainTbl, pkg, tag_list, pull_list, release, lw) ==
    LET Result(st, dates) ==
            [results |-> st.results,
             tag_dates |-> MergeDates(tdates, dates, 1),
             main |-> st.main]
        Walk(pt) ==
            Result(WalkBranches([results |-> res, main |-> mainTbl,
                                 current |-> Untagged],
                                SortedKeys(DOMAIN pt.merges), pt.merges, pkg,
                                release, pt.dates, lw),
                   pt.dates)
    IN  Walk(process_tags(tag_list, pull_list, release, pkg))

-----------------------------------------------------------------------------
(* changelog.py: ChangeLog.merge_releases *)

\* the historical cutoff of merge_releases (version[0] < 16)
CutoffMajor == 16

\* the cutoff test with the bound 6 for 16
BelowCutoff_6(t) == desc(t).version[1] < 6

BelowCutoff(t) == desc(t).version[1] < CutoffMajor

\* last_rel keyed by the exact tag name throughout
LastRelKey_exact(t, mergeFirst) == t.name

\* the key of last_rel a tag is filed under (lines 381-384, 391-394)
LastRelKey(t, mergeFirst) ==
    IF is_first_release_tag(t) /\ ~mergeFirst THEN t.name ELSE base_name(t)

\* lines 377-384: last_rel, filled in ascending tag order
RECURSIVE BuildLastRel(_, _, _)
BuildLastRel(releases, mergeFirst, last_rel) ==
    IF releases = <<>> THEN last_rel
    ELSE LET rel == Head(releases)
         IN  BuildLastRel(Tail(releases), mergeFirst,
                 IF desc(rel).kind # "regular" \/ BelowCutoff(rel) THEN last_rel
                 ELSE Set(last_rel, LastRelKey(rel, mergeFirst), rel))

\* dict.update: every ticket entry of data replaces the entry of the
\* same ticket
Update(table, data) == data @@ table

\* lines 386-398, the body of the loop over release_data[0];
\* acc = [result, raised (a KeyError of last_rel)]
FoldTable(tag, data, mergeFirst, last_rel, acc) ==
    LET Merge(name) ==
            [acc EXCEPT !.result =
                Put(@, name,
                    Update(IF Has(acc.result, name) THEN acc.result.val[name]
                           ELSE <<>>, data))]
        File(key) ==
            IF key \notin DOMAIN last_rel THEN [acc EXCEPT !.raised = TRUE]
            ELSE Merge(last_rel[key].name)
        Check(rtag) ==
            IF ~is_valid(rtag) \/ BelowCutoff(rtag) THEN acc
            ELSE File(LastRelKey(rtag, mergeFirst))
    IN  Check(Tag(tag))

\* lines 385-398: fold the release tables in the insertion order of
\* release_data[0]
RECURSIVE FoldTables(_, _, _, _, _)
FoldTables(res, i, mergeFirst, last_rel, acc) ==
    IF i > Len(res.keys) \/ acc.raised THEN acc
    ELSE FoldTables(res, i + 1, mergeFirst, last_rel,
                    FoldTable(res.keys[i], res.val[res.keys[i]], mergeFirst,
                              last_rel, acc))

NoPkgs == [pkgs |-> {}, removed |-> {}, added |-> {}]

\* lines 400-409, the body of the loop over the package diffs
FoldPackage(tag, data, last_rel, packages) ==
    LET Merge(name, old) ==
            Put(packages, name,
                [pkgs |-> old.pkgs \cup data.pkgs,
                 removed |-> old.removed \cup data.removed,
                 added |-> old.added \cup data.added])
        File(name) ==
            Merge(name, IF Has(packages, name) THEN packages.val[name]
                        ELSE NoPkgs)
        Check(key) ==
            IF key \notin DOMAIN last_rel THEN packages
            ELSE File(last_rel[key].name)
    IN  IF ~is_valid(tag) \/ BelowCutoff(tag) THEN packages
        ELSE Check(base_name(tag))

\* lines 399-409: union the package diffs per merged release
RECURSIVE FoldPackages(_, _, _, _)
FoldPackages(diff, i, last_rel, packages) ==
    IF i > Len(diff.keys) THEN packages
    ELSE FoldPackages(diff, i + 1, last_rel,
                      FoldPackage(Tag(diff.keys[i]), diff.val[diff.keys[i]],
                                  last_rel, packages))

\* merge_releases(release_data, package_diff, mergeFirst)
merge_releases(res, tdates, diff, mergeFirst) ==
    LET Result(folded, last_rel) ==
            [result |-> folded.result,
             packages |-> IF folded.raised THEN EmptyDict
                          ELSE FoldPackages(diff, 1, last_rel, EmptyDict),
             raised |-> folded.raised]
        Fold(last_rel) ==
            Result(FoldTables(res, 1, mergeFirst, last_rel,
                              [result |-> EmptyDict, raised |-> FALSE]),
                   last_rel)
    IN  Fold(BuildLastRel(SortedTags(tdates.keys, <<>>), mergeFirst, <<>>))

-----------------------------------------------------------------------------
(* The fetched snapshot: bounded inputs *)

MaxLen == 3      \* commits of a single-branch history
MaxTags == 2     \* tags of a snapshot
MaxRc == 150     \* largest release-candidate number of a tag name

W01 == <<"w", ".", "2", "0", "2", "3", ".", "0", "1">>
W02 == <<"w", ".", "2", "0", "2", "3", ".", "0", "2">>
RC1 == <<"2", "3", ".", "0", ".", "0", ".", "r", "c", "1">>
VFIN == <<"v", "2", "3", ".", "0", ".", "0">>
FIN == <<"2", "3", ".", "0", ".", "0">>
OLD == <<"1", "5", ".", "0", ".", "0">>

Pkgs == <<"afw", "base">>

RelBranch == <<"2", "3", ".", "0", ".", "x">>
SloppyBranch == <<"u", "/", "2", "3", ".", "0", ".", "x", "-", "f", "i", "x">>
DevBranch == <<"d", "e", "v", "e", "l", "o", "p">>
BranchNames == {MainBranch, RelBranch, SloppyBranch, DevBranch}

\* (headRefName after the "tickets/" prefix is cut, title) of a pull
\* request; "X" is a commit that is not the merge commit of a pull request
HeadDM100 == <<"D", "M", "-", "1", "0", "0">>
HeadUser == <<"u", "/", "f", "i", "x">>
TitleDM100 == <<"D", "M", "-", "1", "0", "0", " ", "f", "i", "x", " ", "b", "u", "g">>
TitleDM200 == <<"d", "m", " ", "2", "0", "0", " ", "f", "i", "x">>
TitlePlain == <<"f", "i", "x", " ", "b", "u", "g">>

Kind(k) ==
    CASE k = "H100" -> [head |-> HeadDM100, title |-> TitlePlain]
      [] k = "T100" -> [head |-> HeadUser, title |-> TitleDM100]
      [] k = "HT"   -> [head |-> HeadDM100, title |-> TitleDM200]
      [] k = "N"    -> [head |-> HeadUser, title |-> TitlePlain]

\* the date of the i-th commit of a snapshot: day 1, 3, 5, ...
DayOf(i) == 2 * i - 1

\* sequences over S of length 1..n
SeqsUpTo(S, n) == UNION {[1..k -> S] : k \in 1..n}

\* one repository, default branch: the attribution window
HistoryLists ==
    SeqsUpTo([pkg : {"afw"}, branch : {MainBranch},
              kind : {"T100", "N", "X"}], MaxLen)

\* one repository, several base branches
BranchLists ==
    SeqsUpTo([pkg : {"afw"}, branch : BranchNames, kind : {"H100"}], MaxLen - 1)

\* two repositories, every way a ticket number is resolved
RowLists ==
    SeqsUpTo([pkg : {"afw", "base"}, branch : {MainBranch},
              kind : {"H100", "T100", "HT"}], MaxLen - 1)

CommitLists == HistoryLists \cup BranchLists \cup RowLists

TagNamesOf(release) ==
    IF release = REGULAR THEN {RC1, VFIN, OLD} ELSE {W01, W02, RC1}

\* tags as (name, index of the tagged commit); a name is used once per
\* repository
TagSets(commits, release) ==
    {T \in SUBSET (TagNamesOf(release) \X (1..Len(commits))) :
        /\ Cardinality(T) <= MaxTags
        /\ \A a, b \in T :
              (a[1] = b[1] /\ commits[a[2]].pkg = commits[b[2]].pkg) => a = b}

\* the oid of the i-th commit
OidOf(i) == i

Url(pkg, i) == <<pkg, "pull", i>>

\* github['pulls'][pkg] as get_pull_requests builds it
PullsOf(commits, pkg) ==
    {[branch |-> commits[i].branch, date |-> DayOf(i),
      head |-> Kind(commits[i].kind).head, oid |-> OidOf(i),
      url |-> Url(pkg, i), title |-> Kind(commits[i].kind).title] :
        i \in {j \in 1..Len(commits) :
                  commits[j].pkg = pkg /\ commits[j].kind # "X"}}

RECURSIVE SetToSeq(_)
SetToSeq(S) ==
    IF S = {} THEN <<>>
    ELSE LET x == CHOOSE y \in S : TRUE IN <<x>> \o SetToSeq(S \ {x})

\* a node of the refs query for a tag on the i-th commit: an annotated tag
\* carries the date it was made, here the day after the next commit; a
\* lightweight tag carries no tagger
RefNode(name, i, annotated) ==
    [name |-> name, oid |-> OidOf(i), committedDate |-> DayOf(i),
     tagger |-> IF annotated THEN DayOf(i + 1) + 1 ELSE NoDate]

\* get_tags lines 228-238: a lightweight tag gets its commit date as
\* tagger date
get_tags(r) ==
    [name |-> r.name, oid |-> r.oid, committedDate |-> r.committedDate,
     tagDate |-> IF r.tagger = NoDate THEN r.committedDate ELSE r.tagger]

\* github['tags'][pkg] as get_tags builds it
TagsOf(commits, T, pkg, annotated) ==
    LET mine == SetToSeq({t \in T : commits[t[2]].pkg = pkg})
    IN  [i \in 1..Len(mine) |->
            get_tags(RefNode(mine[i][1], mine[i][2], annotated))]

\* the tags of a snapshot are all lightweight or, in the single-branch
\* histories, all annotated
TagForms(commits) ==
    IF commits \in HistoryLists THEN BOOLEAN ELSE {FALSE}

PkgsOf(commits) ==
    SelectSeq(Pkgs, LAMBDA p : \E i \in 1..Len(commits) : commits[i].pkg = p)

\* package_diff[ReleaseType.REGULAR]: the EUPS manifest diffs per tag
package_diff ==
    Put(Put(Put(EmptyDict,
        OLD, [pkgs |-> {"afw"}, removed |-> {}, added |-> {"afw"}]),
        RC1, [pkgs |-> {"afw", "base"}, removed |-> {}, added |-> {"base"}]),
        FIN, [pkgs |-> {"base"}, removed |-> {"afw"}, added |-> {}])

NoTag == [name |-> <<>>]
NoMerge == [result |-> EmptyDict, packages |-> EmptyDict, raised |-> FALSE]
NoFlags == [mergeReleases |-> FALSE, mergeFirst |-> FALSE]

\* no earlier run
NoOutput == [pc |-> "idle"]

-----------------------------------------------------------------------------
(* create_changelog: process() package by package, then merge_releases *)

TagIdle ==
    /\ raw1 = <<>> /\ raw2 = <<>> /\ tag1 = NoTag /\ tag2 = NoTag
    /\ tpc = "idle"

\* no query answered yet
NoRemote == [pulls |-> <<>>, refs |-> <<>>]

\* no fetch in progress
FetchIdle ==
    /\ attempt = <<>> /\ futures = <<>> /\ fetched = EmptyDict
    /\ fpc = "idle" /\ remote = NoRemote

\* ChangeLogData.__init__ and process lines 157-160
Init ==
    /\ TagIdle
    /\ FetchIdle
    /\ releaseType \in {WEEKLY, REGULAR}
    /\ \E commits \in CommitLists :
        \E T \in TagSets(commits, releaseType), annotated \in TagForms(commits) :
            /\ order = PkgsOf(commits)
            /\ tags = [p \in {order[i] : i \in 1..Len(order)} |->
                          TagsOf(commits, T, p, annotated)]
            /\ pulls = [p \in {order[i] : i \in 1..Len(order)} |->
                           PullsOf(commits, p)]
    /\ last_weekly = W02
    /\ idx = 0
    /\ results = Put(EmptyDict, Untagged, <<>>)
    /\ tag_dates = EmptyDict
    /\ main = <<>>
    /\ merged = NoMerge
    /\ flags = NoFlags
    /\ pc = "process"
    /\ prev = NoOutput

\* process lines 161-225: the next package of self.tags.items()
ProcessPkg ==
    /\ pc = "process"
    /\ idx < Len(order)
    /\ LET pkg == order[idx + 1]
           r == process_pkg(results, tag_dates, main, pkg, tags[pkg],
                            pulls[pkg], releaseType, last_weekly)
       IN  /\ results' = r.results
           /\ tag_dates' = r.tag_dates
           /\ main' = r.main
    /\ idx' = idx + 1
    /\ UNCHANGED <<prev, remote, fetchVars, raw1, raw2, tag1, tag2, tpc, tags, pulls, releaseType,
                   order, last_weekly, merged, flags, pc>>

\* the current time of line 228: later than every date of the snapshot
Now == DayOf(MaxLen + 1)

\* datetime.utcnow() is read anew on every run
Clock == {Now, Now + 1}

\* a return that dates the untagged bucket by the clock as well
ProcessReturn_stamped ==
    /\ pc = "process"
    /\ idx = Len(order)
    /\ \E now \in Clock :
          IF releaseType = WEEKLY /\ main # <<>>
          THEN /\ results' = Put(results, TildeMain, main)
               /\ tag_dates' = Put(Put(tag_dates, Untagged, now), TildeMain, now)
          ELSE /\ results' = results
               /\ tag_dates' = Put(tag_dates, Untagged, now)
    /\ pc' = "processed"
    /\ UNCHANGED <<prev, remote, fetchVars, raw1, raw2, tag1, tag2, tpc, tags, pulls, releaseType,
                   order, idx, main, last_weekly, merged, flags>>

\* process lines 226-230
ProcessReturn ==
    /\ pc = "process"
    /\ idx = Len(order)
    /\ IF releaseType = WEEKLY /\ main # <<>>
       THEN /\ results' = Put(results, TildeMain, main)
            /\ \E now \in Clock : tag_dates' = Put(tag_dates, TildeMain, now)
       ELSE UNCHANGED <<results, tag_dates>>
    /\ pc' = "processed"
    /\ UNCHANGED <<prev, remote, fetchVars, raw1, raw2, tag1, tag2, tpc, tags, pulls, releaseType,
                   order, idx, main, last_weekly, merged, flags>>

\* create_changelog lines 487-490
MergeReleases ==
    /\ pc = "processed"
    /\ releaseType = REGULAR
    /\ \E mergeFirst \in BOOLEAN :
        /\ flags' = [mergeReleases |-> TRUE, mergeFirst |-> mergeFirst]
        /\ merged' = merge_releases(results, tag_dates, package_diff, mergeFirst)
    /\ pc' = "merged"
    /\ UNCHANGED <<prev, remote, fetchVars, raw1, raw2, tag1, tag2, tpc, tags, pulls, releaseType,
                   order, idx, results, tag_dates, main, last_weekly>>

\* create_changelog lines 487, 491-493: no merge, the tables are written
WriteUnmerged ==
    /\ pc = "processed"
    /\ \E mergeFirst \in BOOLEAN :
        flags' = [mergeReleases |-> FALSE, mergeFirst |-> mergeFirst]
    /\ pc' = "written"
    /\ UNCHANGED <<prev, remote, fetchVars, raw1, raw2, tag1, tag2, tpc, tags, pulls, releaseType,
                   order, idx, results, tag_dates, main, last_weekly, merged>>

Next == ProcessPkg \/ ProcessReturn \/ MergeReleases \/ WriteUnmerged

Spec == Init /\ [][Next]_vars

-----------------------------------------------------------------------------
(* Tag construction on its own: two raw names, one Tag object each *)

Absent == -1

\* a regular tag name written from its components; patch and rc may be
\* Absent
MkRegular(v, major, minor, patch, rc, sep) ==
    (IF v THEN <<"v">> ELSE <<>>) \o Fmt(major) \o <<sep>> \o Fmt(minor)
    \o (IF patch = Absent THEN <<>> ELSE <<sep>> \o Fmt(patch))
    \o (IF rc = Absent THEN <<>> ELSE <<sep, "r", "c">> \o Fmt(rc))

MkWeekly(year, week, sep) ==
    <<"w", sep>> \o Fmt(year) \o <<sep>> \o Fmt02(week)

TagMajors == {8, 23, 25, 1001}
TagMinors == {0, 1}
TagPatches == {Absent, 0, 1}
TagRcs == {Absent, 1, 2, MaxRc - 100, MaxRc}

RegularNames ==
    {MkRegular(FALSE, M, m, p, r, ".") :
        M \in TagMajors, m \in TagMinors, p \in TagPatches, r \in TagRcs}
    \cup {MkRegular(TRUE, 23, 0, 0, r, ".") : r \in {Absent, 1}}
    \cup {MkRegular(TRUE, 25, 0, 1, 1, "."), MkRegular(FALSE, 23, 0, 0, 1, "_"),
          MkRegular(FALSE, 23, 0, 1, Absent, "|")}

WeeklyNames ==
    {MkWeekly(y, w, ".") : y \in {2022, 2023}, w \in {1, 2, 52}}
    \cup {MkWeekly(2023, 1, "_"), MkWeekly(2023, 1, "|"),
          <<"w", ".", "2", "0", "2", "3", ".", "1">>}

OtherNames ==
    {<<"m", "a", "i", "n">>, <<"d", "o", "m", "a", "i", "n">>,
     <<"d", ".", "2", "0", "2", "3", ".", "0", "1", ".", "0", "2">>,
     <<"w", ".", "2", "0", "2", "3", ".", "0", "1", ".", "0", "2">>,
     Untagged, DevBranch}

TagNamePool == RegularNames \cup WeeklyNames \cup OtherNames

ProcessIdle ==
    /\ tags = <<>> /\ pulls = <<>> /\ releaseType = REGULAR /\ order = <<>>
    /\ idx = 0 /\ results = EmptyDict /\ tag_dates = EmptyDict /\ main = <<>>
    /\ last_weekly = W02 /\ merged = NoMerge /\ flags = NoFlags /\ pc = "idle"
    /\ prev = NoOutput

InitTag ==
    /\ ProcessIdle
    /\ FetchIdle
    /\ raw1 \in TagNamePool
    /\ raw2 \in TagNamePool
    /\ tag1 = NoTag
    /\ tag2 = NoTag
    /\ tpc = "first"

\* Tag(raw1)
NewTag1 ==
    /\ tpc = "first"
    /\ tag1' = Tag(raw1)
    /\ tpc' = "second"
    /\ UNCHANGED <<prev, remote, fetchVars, raw1, raw2, tag2, tags, pulls, releaseType, order, idx,
                   results, tag_dates, main, last_weekly, merged, flags, pc>>

\* Tag(raw2)
NewTag2 ==
    /\ tpc = "second"
    /\ tag2' = Tag(raw2)
    /\ tpc' = "done"
    /\ UNCHANGED <<prev, remote, fetchVars, raw1, raw2, tag1, tags, pulls, releaseType, order, idx,
                   results, tag_dates, main, last_weekly, merged, flags, pc>>

\* the snapshot of two repositories, each with one pull request merged
\* into main and one tag on its merge commit: raw1 in afw, raw2 in base
TaggedCommits ==
    <<[pkg |-> "afw", branch |-> MainBranch, kind |-> "T100"],
      [pkg |-> "base", branch |-> MainBranch, kind |-> "T100"]>>

\* ChangeLogData.__init__ and process lines 157-160 on that snapshot
TagSnapshot ==
    /\ tpc = "done"
    /\ pc = "idle"
    /\ releaseType' \in {WEEKLY, REGULAR}
    /\ order' = PkgsOf(TaggedCommits)
    /\ tags' = [p \in {"afw", "base"} |->
                    TagsOf(TaggedCommits,
                           {<<raw1, 1>>, <<raw2, 2>>}, p, FALSE)]
    /\ pulls' = [p \in {"afw", "base"} |-> PullsOf(TaggedCommits, p)]
    /\ idx' = 0
    /\ results' = Put(EmptyDict, Untagged, <<>>)
    /\ tag_dates' = EmptyDict
    /\ main' = <<>>
    /\ pc' = "process"
    /\ UNCHANGED <<prev, remote, fetchVars, raw1, raw2, tag1, tag2, tpc, last_weekly, merged, flags>>

NextTag == NewTag1 \/ NewTag2 \/ TagSnapshot \/ ProcessPkg \/ ProcessReturn

SpecTag == InitTag /\ [][NextTag]_vars

-----------------------------------------------------------------------------
(* Properties of Tag *)

KindOf(t) ==
    IF ~is_valid(t) THEN "invalid"
    ELSE IF t.is_main THEN "main"
    ELSE IF t.is_weekly THEN "weekly"
    ELSE IF t.is_daily THEN "daily"
    ELSE "regular"

\* the components a kind is compared by
ComponentsOf(t) ==
    CASE KindOf(t) = "weekly" -> <<t.year, t.week>>
      [] KindOf(t) = "daily" -> <<t.year, t.month, t.day>>
      [] KindOf(t) = "regular" -> <<t.major, t.minor, t.patch, t.rc>>
      [] OTHER -> <<>>

RECURSIVE LexLess(_, _)
LexLess(a, b) ==
    IF a = <<>> \/ b = <<>> THEN FALSE
    ELSE IF Head(a) = Head(b) THEN LexLess(Tail(a), Tail(b))
    ELSE Head(a) < Head(b)

\* C3: for two valid tags of the same kind (weekly, daily or regular) the
\* comparison of the ordering keys (__lt__, __gt__, __eq__) agrees with the
\* lexicographic comparison of their components.
C3_KeyOrderIsComponentOrder ==
    (tpc = "done" /\ KindOf(tag1) = KindOf(tag2)
        /\ KindOf(tag1) \in {"weekly", "daily", "regular"})
    => /\ Tag_lt(tag1, tag2) <=> LexLess(ComponentsOf(tag1), ComponentsOf(tag2))
       /\ Tag_gt(tag1, tag2) <=> LexLess(ComponentsOf(tag2), ComponentsOf(tag1))
       /\ Tag_eq(tag1, tag2) <=> ComponentsOf(tag1) = ComponentsOf(tag2)

Dotted(major, minor, patch) ==
    Fmt(major) \o <<".">> \o Fmt(minor) \o <<".">> \o Fmt(patch)

\* C4: base_name() of a valid regular tag written MAJOR.MINOR[.PATCH][.rcN]
\* is the string "MAJOR.MINOR.PATCH" (PATCH 0 when not written) and equals
\* base_name() of the same name without its rc suffix.
C4_BaseNameRcInvariant ==
    \A v \in BOOLEAN, M \in TagMajors, m \in TagMinors, p \in TagPatches,
       r \in TagRcs, sep \in {".", "_"} :
        (tpc # "first" /\ raw1 = MkRegular(v, M, m, p, r, sep)
            /\ KindOf(tag1) = "regular")
        => /\ base_name(tag1) = Dotted(M, m, IF p = Absent THEN 0 ELSE p)
           /\ base_name(tag1) = base_name(Tag(MkRegular(v, M, m, p, Absent, sep)))

\* a valid release candidate has been constructed
C4_Witness ==
    /\ tpc = "done"
    /\ KindOf(tag1) = "regular"
    /\ tag1.rc = 2
    /\ tag1.patch = 1

-----------------------------------------------------------------------------
(* Properties of process() and merge_releases() *)

Processed == pc \in {"processed", "merged", "written"}

Range(f) == {f[i] : i \in DOMAIN f}

Contributor(pkg, p) == <<pkg, p.url>>

\* the (ticket, branch) rows of a table
RowsOf(table) ==
    UNION {{<<k, b>> : b \in DOMAIN table[k]} : k \in DOMAIN table}

\* the rows of release rel that list contributor c
RowsHolding(rel, c) ==
    {r \in RowsOf(results.val[rel]) : c \in results.val[rel][r[1]][r[2]].pkgs}

HeldIn(rel, c) == Has(results, rel) /\ RowsHolding(rel, c) # {}

\* the releases a contributor is listed under ("~main" repeats "~untagged")
AttributedTo(c) == {rel \in DOMAIN results.val \ {TildeMain} : HeldIn(rel, c)}

\* what the snapshot's strings denote, written down independently of the
\* parsers: the number of a pull request (0: none) ...
HeadNumber(p) == IF p.head = HeadDM100 THEN 100 ELSE 0

TitleNumber(p) ==
    IF p.title = TitleDM100 THEN 100 ELSE IF p.title = TitleDM200 THEN 200 ELSE 0

ExpectedNumber(p) == IF HeadNumber(p) # 0 THEN HeadNumber(p) ELSE TitleNumber(p)

Ticketed(p) == ExpectedNumber(p) # 0

\* ... the release name of a raw tag name, and the names of a cadence
NameOfTag(raw) == IF raw = VFIN THEN FIN ELSE raw

CadenceNames(release) ==
    IF release = WEEKLY THEN {W01, W02} ELSE {RC1, VFIN, OLD}

\* the releases whose tag points at commit oid of repository pkg
ReleaseTagsAt(pkg, oid) ==
    {NameOfTag(t.name) :
        t \in {u \in Range(tags[pkg]) :
                  u.oid = oid /\ u.name \in CadenceNames(releaseType)}}

\* the base branches process() walks: the default branch and the names
\* with a MAJOR.MINOR.x part
BranchAccepted(b) == b \in {MainBranch, RelBranch, SloppyBranch}

RECURSIVE MaxOf(_)
MaxOf(S) == IF S = {} THEN 0
            ELSE LET x == CHOOSE y \in S : TRUE
                     m == MaxOf(S \ {x})
                 IN  IF x > m THEN x ELSE m

\* C1: for two tagged merges p (first tag) and q (last tag) of one branch
\* of one repository, the merge at the last tag's commit is listed under
\* the last tag's release and the merge at the first tag's commit is not:
\* it is listed under the first tag's release.
C1_HalfOpenWindow ==
    Processed =>
    \A pkg \in DOMAIN pulls : \A p, q \in pulls[pkg] :
        (/\ p.branch = q.branch
         /\ BranchAccepted(p.branch)
         /\ p.date < q.date
         /\ ReleaseTagsAt(pkg, p.oid) # {}
         /\ ReleaseTagsAt(pkg, q.oid) # {})
        => /\ Ticketed(q) =>
                \E rel \in ReleaseTagsAt(pkg, q.oid) :
                    HeldIn(rel, Contributor(pkg, q))
           /\ \A rel \in ReleaseTagsAt(pkg, q.oid) \ ReleaseTagsAt(pkg, p.oid) :
                ~HeldIn(rel, Contributor(pkg, p))
           /\ Ticketed(p) =>
                \E rel \in ReleaseTagsAt(pkg, p.oid) :
                    HeldIn(rel, Contributor(pkg, p))

\* a processed branch with a ticketed merge at its first and at its last tag
C1_Witness ==
    /\ Processed
    /\ \E pkg \in DOMAIN pulls : \E p, q \in pulls[pkg] :
        /\ p.branch = q.branch
        /\ BranchAccepted(p.branch)
        /\ p.date < q.date
        /\ ReleaseTagsAt(pkg, p.oid) # {}
        /\ ReleaseTagsAt(pkg, q.oid) # {}
        /\ Ticketed(p)
        /\ Ticketed(q)

\* C2: tags w.2023.01 (commit of day 1) and w.2023.02 (commit of day 5), one
\* pull request merged on day 3 on main titled "DM-100 fix bug": release
\* w.2023.02 lists ticket 100 with merge date day 3 and w.2023.01 lists none.
C2_Scenario ==
    (/\ Processed
     /\ releaseType = WEEKLY
     /\ DOMAIN pulls = {"afw"}
     /\ Range(tags["afw"]) =
            {[name |-> W01, oid |-> OidOf(1), committedDate |-> 1, tagDate |-> 1],
             [name |-> W02, oid |-> OidOf(3), committedDate |-> 5, tagDate |-> 5]}
     /\ pulls["afw"] =
            {[branch |-> MainBranch, date |-> 3, head |-> HeadUser,
              oid |-> OidOf(2), url |-> Url("afw", 2), title |-> TitleDM100]})
    => /\ Has(results, W02)
       /\ \E r \in RowsOf(results.val[W02]) :
            /\ ParseInt(r[1].text) = 100
            /\ results.val[W02][r[1]][r[2]].date = 3
       /\ Has(results, W01) => RowsOf(results.val[W01]) = {}

Output == IF pc = "merged" THEN merged.result ELSE results

GroupOf(k) ==
    IF flags.mergeFirst /\ k = RC1 /\ Has(tag_dates, FIN) THEN FIN ELSE k

\* C6: the merged ticket table is the union of the folded tags' tables:
\* every (ticket, branch) row of every folded tag is present, with the
\* union of the contributors and the latest merge date of the folded rows.
C6_MergedTableIsUnion ==
    (pc = "merged" /\ ~merged.raised) =>
    \A k \in DOMAIN results.val \ {Untagged, OLD} :
        \A r \in RowsOf(results.val[k]) :
            LET K == GroupOf(k)
                folded == {j \in DOMAIN results.val \ {Untagged, OLD} :
                              GroupOf(j) = K /\ r \in RowsOf(results.val[j])}
            IN  /\ Has(merged.result, K)
                /\ r \in RowsOf(merged.result.val[K])
                /\ merged.result.val[K][r[1]][r[2]].pkgs =
                       UNION {results.val[j][r[1]][r[2]].pkgs : j \in folded}
                /\ merged.result.val[K][r[1]][r[2]].date =
                       MaxOf({results.val[j][r[1]][r[2]].date : j \in folded})

\* C7: no key of the merged ticket output or of the merged package output
\* names a release with a major version below 16.
C7_NoReleaseBelowCutoff ==
    pc = "merged" =>
    \A k \in DOMAIN merged.result.val \cup DOMAIN merged.packages.val :
        k # OLD /\ Tag(k).major >= 16

\* a 15.0.0 row with tickets went into merge_releases with a newer release
C7_Witness ==
    /\ pc = "merged"
    /\ Has(results, OLD)
    /\ RowsOf(results.val[OLD]) # {}
    /\ Has(tag_dates, FIN)
    /\ DOMAIN merged.packages.val # {}

\* the pull requests of the snapshot, with their repository
AllPulls == UNION {{<<pkg, p>> : p \in pulls[pkg]} : pkg \in DOMAIN pulls}

\* the number every row listing contributor c is keyed by is n
KeyedBy(c, n) ==
    \A rel \in DOMAIN results.val :
        \A r \in RowsHolding(rel, c) : r[1] # None /\ ParseInt(r[1].text) = n

C9_RowIsUnionOfMerges ==
    Processed =>
    \A rel \in DOMAIN results.val : \A b \in BranchNames : \A n \in {100, 200} :
        LET recs == {x \in AllPulls :
                        /\ x[2].branch = b
                        /\ \E r \in RowsHolding(rel, Contributor(x[1], x[2])) :
                              ParseInt(r[1].text) = n /\ r[2] = b}
        IN  recs # {} =>
            \E k \in DOMAIN results.val[rel] :
                /\ ParseInt(k.text) = n
                /\ b \in DOMAIN results.val[rel][k]
                /\ results.val[rel][k][b].pkgs =
                       {Contributor(x[1], x[2]) : x \in recs}
                /\ results.val[rel][k][b].date = MaxOf({x[2].date : x \in recs})

\* the commits of repository pkg that some tag points at
TagTargets(pkg) == {t.oid : t \in Range(tags[pkg])}

\* C10: a merge is dropped (listed in no release table) whenever its merge
\* commit is not the target of any tag of the repository, or its base
\* branch is neither main nor exactly MAJOR.MINOR.x.
C10_UntaggedOrOffBranchDropped ==
    Processed =>
    \A x \in AllPulls :
        (\/ x[2].oid \notin TagTargets(x[1])
         \/ x[2].branch \notin {MainBranch, RelBranch})
        => \A rel \in DOMAIN results.val : ~HeldIn(rel, Contributor(x[1], x[2]))

\* C10 as amended: a merge is dropped whenever its base branch is neither
\* main nor a name with a MAJOR.MINOR.x part; a ticketed merge on such a
\* branch whose commit no tag points at is not dropped, it is listed under
\* exactly one release.
C10_OffBranchDropped ==
    Processed =>
    \A x \in AllPulls :
        LET c == Contributor(x[1], x[2])
        IN  /\ ~BranchAccepted(x[2].branch)
                => \A rel \in DOMAIN results.val : ~HeldIn(rel, c)
            /\ (/\ BranchAccepted(x[2].branch)
                /\ Ticketed(x[2])
                /\ x[2].oid \notin TagTargets(x[1]))
                => Cardinality(AttributedTo(c)) = 1

\* processed: a ticketed merge on "develop" and an untagged ticketed merge
\* on an accepted branch
C10_Witness ==
    /\ Processed
    /\ \E x \in AllPulls : x[2].branch = DevBranch /\ Ticketed(x[2])
    /\ \E x \in AllPulls :
        /\ BranchAccepted(x[2].branch)
        /\ Ticketed(x[2])
        /\ x[2].oid \notin TagTargets(x[1])

\* the cadence tags of repository pkg
CadenceTags(pkg) ==
    {t \in Range(tags[pkg]) : t.name \in CadenceNames(releaseType)}

\* no tag of the cadence sits on the commit of p or on a later commit
Unbounded(pkg, p) == \A t \in CadenceTags(pkg) : t.committedDate < p.date

\* the ticketed merges on default branches that no tag bounds
UnboundedOnMain ==
    {x \in AllPulls :
        /\ x[2].branch = MainBranch
        /\ Ticketed(x[2])
        /\ Unbounded(x[1], x[2])}

\* C11: in weekly reconciliation every ticketed merge on a default branch
\* that no tag of its repository bounds is listed under "~main", and
\* "~main" is a release of the result exactly when there is such a merge.
C11_UnboundedMergesInMain ==
    (Processed /\ releaseType = WEEKLY) =>
        /\ \A x \in UnboundedOnMain :
                HeldIn(TildeMain, Contributor(x[1], x[2]))
        /\ Has(results, TildeMain) <=> UnboundedOnMain # {}

\* the cadence tag of a repository whose history holds exactly one
SoleTags(pkg) == IF Cardinality(CadenceTags(pkg)) = 1 THEN CadenceTags(pkg) ELSE {}

\* C12: when the history of a repository holds a single tag, the merges
\* older than the tagged commit are not listed under that tag's release
\* on account of that repository.
C12_SoleTagNotAttributed ==
    Processed =>
    \A x \in AllPulls : \A t \in SoleTags(x[1]) :
        x[2].date < t.committedDate
            => ~HeldIn(NameOfTag(t.name), Contributor(x[1], x[2]))

-----------------------------------------------------------------------------
(* Properties of Tag: kinds, validity, keys *)

\* the kind predicates that hold of a tag
KindsHolding(t) ==
    {k \in {"weekly", "daily", "regular", "main"} :
        \/ k = "weekly" /\ is_weekly(t)
        \/ k = "daily" /\ is_daily(t)
        \/ k = "regular" /\ is_regular(t)
        \/ k = "main" /\ t.is_main}

CadencesMatching(t) ==
    {R \in {WEEKLY, REGULAR, DAILY} : matches_release(t, R)}

\* C13: of the kind predicates is_weekly, is_daily, is_regular and main at
\* most one holds of a Tag, exactly one when the tag is valid and none when
\* it is invalid; matches_release holds for at most one cadence.
C13_ExactlyOneKind ==
    tpc # "first" =>
        /\ Cardinality(KindsHolding(tag1)) <= 1
        /\ is_valid(tag1) => Cardinality(KindsHolding(tag1)) = 1
        /\ ~is_valid(tag1) => KindsHolding(tag1) = {}
        /\ Cardinality(CadencesMatching(tag1)) <= 1

\* the names the grammar accepts, written from their components: weekly
\* w[._]YYYY[._]WW, daily w[._]YYYY[._]MM[._]DD, regular
\* v?MAJOR[._]MINOR([._]PATCH)?([._]rcN)? with MAJOR in 9..1000, and main
MkDaily(year, month, day, sep) ==
    <<"w", sep>> \o Fmt(year) \o <<sep>> \o Fmt02(month) \o <<sep>> \o Fmt02(day)

GrammarNames ==
    {MkRegular(v, M, m, p, r, sep) :
        v \in BOOLEAN, M \in TagMajors \cap (9..1000), m \in TagMinors,
        p \in TagPatches, r \in TagRcs, sep \in {".", "_"}}
    \cup {MkWeekly(y, w, sep) :
            y \in {2022, 2023}, w \in {1, 2, 52}, sep \in {".", "_"}}
    \cup {MkDaily(2023, 1, 2, sep) : sep \in {".", "_"}}
    \cup {<<"m", "a", "i", "n">>}

\* the release names process() holds after it has returned
ReleaseKeys == Range(results.keys) \cup Range(tag_dates.keys)

\* the names a raw tag name can be recorded under ('v' removed or not)
SpellingsOf(raw) == {raw, RemoveChar(raw, "v")}

\* C14: a tag name outside the grammar, or a regular name whose MAJOR is
\* outside 9..1000, gives an invalid Tag without an error, and process()
\* holds no release, tag date or table under that name.
C14_RejectedNamesExcluded ==
    /\ (tpc # "first" /\ raw1 \notin GrammarNames)
        => (~is_valid(tag1) /\ ~tag1.raised)
    /\ pc = "processed"
        => \A raw \in {raw1, raw2} \ GrammarNames :
                SpellingsOf(raw) \cap ReleaseKeys = {}

\* the raw names of the discarded tags, with and without a leading 'v'
DiscardSpellings == discard_tag \cup {<<"v">> \o d : d \in discard_tag}

\* C15: a tag named as a discard-list entry is not valid, and process()
\* holds no release, tag date or table under a discard-list name, whichever
\* of the two repositories carries the tag and with or without a leading
\* 'v' in its raw name.
C15_DiscardedNeverReleased ==
    /\ (tpc # "first" /\ raw1 \in discard_tag) => ~is_valid(tag1)
    /\ (pc = "processed" /\ {raw1, raw2} \cap DiscardSpellings # {})
        => DiscardSpellings \cap ReleaseKeys = {}

\* process() has returned for a cadence and a snapshot in which afw carries
\* a valid regular tag and base the discarded tag spelled with 'v'
C15_Witness ==
    /\ pc = "processed"
    /\ releaseType = REGULAR
    /\ raw1 = FIN
    /\ raw2 \in DiscardSpellings \ discard_tag
    /\ Has(results, FIN)

\* (major, minor, patch) of a regular tag
SeriesOf(t) == <<t.major, t.minor, t.patch>>

\* C16: the key of a final regular tag (no rc suffix, rc 99) is greater
\* than the key of every numbered candidate of the same major.minor.patch
\* and smaller than the key of every tag of a higher major.minor.patch.
C16_FinalAfterCandidates ==
    (/\ tpc = "done"
     /\ KindOf(tag1) = "regular"
     /\ KindOf(tag2) = "regular"
     /\ is_release(tag1))
    => /\ (SeriesOf(tag2) = SeriesOf(tag1) /\ ~is_release(tag2))
            => Tag_gt(tag1, tag2)
       /\ LexLess(SeriesOf(tag1), SeriesOf(tag2)) => Tag_lt(tag1, tag2)

\* C17: two valid tags with equal keys have the same kind and the same
\* components; in particular tags of different kinds have different keys.
C17_EqualKeysSameTag ==
    (/\ tpc = "done"
     /\ is_valid(tag1)
     /\ is_valid(tag2)
     /\ Tag_eq(tag1, tag2))
    => /\ KindOf(tag1) = KindOf(tag2)
       /\ ComponentsOf(tag1) = ComponentsOf(tag2)

\* C18: a tag of the first-tag list that is not discarded is the first tag
\* of its series whatever its rc and patch; a valid regular tag outside
\* the list is one exactly when its rc is 1 and its patch is 0; a weekly,
\* daily or main tag never is.
C18_FirstReleaseTag ==
    tpc # "first" =>
        /\ raw1 \in first_tag \ discard_tag => is_first_release_tag(tag1)
        /\ (KindOf(tag1) = "regular" /\ raw1 \notin first_tag)
            => (is_first_release_tag(tag1)
                    <=> (tag1.rc = 1 /\ tag1.patch = 0))
        /\ KindOf(tag1) \in {"weekly", "daily", "main"}
            => ~is_first_release_tag(tag1)

\* the Tag of a first-tag list entry with rc 2 and patch 1
C18_Witness ==
    /\ tpc = "done"
    /\ raw1 \in first_tag
    /\ tag1.rc = 2
    /\ tag1.patch = 1
    /\ KindOf(tag2) = "weekly"

-----------------------------------------------------------------------------
(* Properties of process(): the two dates of a tag *)

\* the tags of the cadence, of any repository, recorded as release rel
TagsNamed(rel) ==
    UNION {{t \in Range(tags[pkg]) :
                t.name \in CadenceNames(releaseType) /\ NameOfTag(t.name) = rel} :
           pkg \in DOMAIN tags}

\* the last weekly tag of repository pkg
LastWeeklyTags(pkg) == {t \in CadenceTags(pkg) : t.name = last_weekly}

\* C19: the date reported for a release is the tag date of its tag (the
\* latest over the repositories): the tagger date of an annotated tag, the
\* commit date of a lightweight one. Windows are bounded by the commit
\* date of the tagged commit, not by the tag date: a merge later than the
\* tagged commit is not listed under the tag's release, and in weekly
\* reconciliation a ticketed merge on the default branch later than the
\* commit of the last weekly tag, with no tag at or after it, is listed
\* under "~main".
C19_TagDateAndCommitDate ==
    Processed =>
        /\ \A rel \in Range(tag_dates.keys) \ {TildeMain} :
                tag_dates.val[rel] = MaxOf({t.tagDate : t \in TagsNamed(rel)})
        /\ \A x \in AllPulls : \A t \in CadenceTags(x[1]) :
                t.committedDate < x[2].date
                    => ~HeldIn(NameOfTag(t.name), Contributor(x[1], x[2]))
        /\ releaseType = WEEKLY =>
                \A x \in UnboundedOnMain : \A t \in LastWeeklyTags(x[1]) :
                    t.committedDate < x[2].date
                        => HeldIn(TildeMain, Contributor(x[1], x[2]))

-----------------------------------------------------------------------------
(* _get_package_repos: one _fetch per repository on the worker pool *)

\* retries of _fetch
Retries == 5

\* repo_list: the repositories of repos.yaml that are products
RepoList == {"afw", "base", "utils"}

\* repos.yaml in file order
RepoOrder == <<"afw", "base", "utils">>

\* what GitHub holds: one pull request merged into main per repository,
\* with a weekly and a regular tag on the merge commits of afw and base
RemoteCommits ==
    <<[pkg |-> "afw", branch |-> MainBranch, kind |-> "T100"],
      [pkg |-> "base", branch |-> MainBranch, kind |-> "H100"],
      [pkg |-> "utils", branch |-> MainBranch, kind |-> "T100"]>>

RemoteTags == {<<W02, 1>>, <<RC1, 1>>, <<W02, 2>>, <<VFIN, 2>>}

\* the dict a successful attempt of _fetch returns (lines 298-303)
FetchedData(repo) ==
    Put(Put(Put(Put(EmptyDict,
        "repo", repo),
        "pulls", PullsOf(RemoteCommits, repo)),
        "tags", TagsOf(RemoteCommits, RemoteTags, repo, FALSE)),
        "branches", {MainBranch})

Running == [state |-> "running", data |-> EmptyDict]

\* _get_package_repos lines 323-327, 336-350: the futures are submitted
InitFetch ==
    /\ TagIdle
    /\ ProcessIdle
    /\ attempt = [r \in RepoList |-> 0]
    /\ futures = [r \in RepoList |-> Running]
    /\ fetched = EmptyDict
    /\ fpc = "collecting"
    /\ remote = NoRemote

\* the fetch leaves the pipeline alone
PipelineIdle ==
    UNCHANGED <<raw1, raw2, tag1, tag2, tpc, tags, pulls, releaseType, order,
                idx, results, tag_dates, main, last_weekly, merged, flags, pc,
                remote, prev>>

\* a task that stores its result in the shared dict itself
FetchSucceeds_shared ==
    \E repo \in RepoList :
        /\ futures[repo].state = "running"
        /\ attempt[repo] < Retries
        /\ futures' = [futures EXCEPT ![repo] =
                          [state |-> "done", data |-> FetchedData(repo)]]
        /\ fetched' = Put(fetched, repo, [pulls |-> {}, tags |-> <<>>,
                                          branches |-> {}])
        /\ UNCHANGED <<attempt, fpc>>
        /\ PipelineIdle

\* _fetch lines 293-303: an attempt succeeds and the dict is returned
FetchSucceeds ==
    \E repo \in RepoList :
        /\ futures[repo].state = "running"
        /\ attempt[repo] < Retries
        /\ futures' = [futures EXCEPT ![repo] =
                          [state |-> "done", data |-> FetchedData(repo)]]
        /\ UNCHANGED <<attempt, fetched, fpc>>
        /\ PipelineIdle

\* an attempt that raises after it has stored the pulls in the dict
FetchFails_partial ==
    \E repo \in RepoList :
        /\ futures[repo].state = "running"
        /\ attempt[repo] < Retries
        /\ attempt' = [attempt EXCEPT ![repo] = @ + 1]
        /\ futures' = [futures EXCEPT ![repo] =
                          [state |-> IF attempt[repo] + 1 = Retries
                                     THEN "done" ELSE "running",
                           data |-> Put(EmptyDict, "pulls", <<repo, "pulls">>)]]
        /\ UNCHANGED <<fetched, fpc>>
        /\ PipelineIdle

\* _fetch lines 293-306: an attempt raises; the exception is caught and
\* logged, and after the last attempt the still empty dict is returned
FetchFails ==
    \E repo \in RepoList :
        /\ futures[repo].state = "running"
        /\ attempt[repo] < Retries
        /\ attempt' = [attempt EXCEPT ![repo] = @ + 1]
        /\ futures' = IF attempt[repo] + 1 = Retries
                      THEN [futures EXCEPT ![repo] =
                              [state |-> "done", data |-> EmptyDict]]
                      ELSE futures
        /\ UNCHANGED <<fetched, fpc>>
        /\ PipelineIdle

\* _get_package_repos lines 351-361: as_completed yields a future whose
\* dict has the key "repo"; its data is stored
Collect ==
    \E repo \in RepoList :
        /\ fpc = "collecting"
        /\ futures[repo].state = "done"
        /\ Has(futures[repo].data, "repo")
        /\ fetched' = Put(fetched, futures[repo].data.val["repo"],
                          [pulls |-> futures[repo].data.val["pulls"],
                           tags |-> futures[repo].data.val["tags"],
                           branches |-> futures[repo].data.val["branches"]])
        /\ futures' = [futures EXCEPT ![repo].state = "yielded"]
        /\ UNCHANGED <<attempt, fpc>>
        /\ PipelineIdle

\* _get_package_repos lines 351-357: as_completed yields a future whose
\* dict is empty; future.result() raises nothing, data["repo"] raises
\* KeyError outside the try, and the method is left by the exception
CollectRaises ==
    \E repo \in RepoList :
        /\ fpc = "collecting"
        /\ futures[repo].state = "done"
        /\ ~Has(futures[repo].data, "repo")
        /\ futures' = [futures EXCEPT ![repo].state = "yielded"]
        /\ fpc' = "raised"
        /\ UNCHANGED <<attempt, fetched>>
        /\ PipelineIdle

\* a return that does not wait for the futures that are still running
ReturnRepos_early ==
    /\ fpc = "collecting"
    /\ \E r \in RepoList : futures[r].state = "yielded"
    /\ fpc' = "returned"
    /\ UNCHANGED <<attempt, futures, fetched>>
    /\ PipelineIdle

\* _get_package_repos lines 362-364: every future has been yielded
ReturnRepos ==
    /\ fpc = "collecting"
    /\ \A r \in RepoList : futures[r].state = "yielded"
    /\ fpc' = "returned"
    /\ UNCHANGED <<attempt, futures, fetched>>
    /\ PipelineIdle

NextFetch ==
    FetchSucceeds \/ FetchFails \/ Collect \/ CollectRaises \/ ReturnRepos

SpecFetch == InitFetch /\ [][NextFetch]_vars

\* create_changelog lines 475-480 and process lines 157-160:
\* _get_package_repos has returned, ChangeLogData is built from its result
\* and process() is entered for a cadence
StartProcess ==
    /\ fpc = "returned"
    /\ pc = "idle"
    /\ releaseType' \in {WEEKLY, REGULAR}
    /\ order' = SelectSeq(RepoOrder, LAMBDA p : Has(fetched, p))
    /\ tags' = [p \in Range(fetched.keys) |-> fetched.val[p].tags]
    /\ pulls' = [p \in Range(fetched.keys) |-> fetched.val[p].pulls]
    /\ idx' = 0
    /\ results' = Put(EmptyDict, Untagged, <<>>)
    /\ tag_dates' = EmptyDict
    /\ main' = <<>>
    /\ pc' = "process"
    /\ UNCHANGED <<prev, remote, fetchVars, raw1, raw2, tag1, tag2, tpc, last_weekly,
                   merged, flags>>

\* create_changelog: the fetch, then the reconciliation
NextRun ==
    \/ FetchSucceeds \/ FetchFails \/ Collect \/ CollectRaises \/ ReturnRepos
    \/ StartProcess \/ ProcessPkg \/ ProcessReturn \/ MergeReleases
    \/ WriteUnmerged

SpecRun == InitFetch /\ [][NextRun]_vars

\* every attempt of the fetch of repo has failed
Exhausted(repo) == attempt[repo] = Retries

\* the repositories whose fetch has returned data
Succeeded == {r \in RepoList : Has(futures[r].data, "repo")}

\* C20: when the fetch of a repository has failed in every attempt,
\* _get_package_repos is not left by an exception, and what it returns
\* holds the data of exactly the repositories whose fetch succeeded.
C20_ExhaustedFetchDropsOneRepo ==
    (\E r \in RepoList : Exhausted(r))
    => /\ fpc # "raised"
       /\ fpc = "returned" => Range(fetched.keys) = Succeeded

\* the worker threads of the pool keep running: a fetch that can make an
\* attempt eventually makes one
SpecFetchLive == SpecFetch /\ WF_vars(FetchSucceeds \/ FetchFails)

\* the attempts the fetch of repo has made
AttemptsMade(repo) ==
    attempt[repo] + (IF Has(futures[repo].data, "repo") THEN 1 ELSE 0)

\* the fetch of repo has returned
Returned(repo) == futures[repo].state # "running"

\* C21: a fetch makes at most 5 attempts; it returns at its first
\* successful attempt with the complete result of that attempt (repo,
\* pulls, tags, branches of its repository), makes no attempt after it has
\* returned, returns after the 5th failure with nothing of the failed
\* attempts, and always returns.
C21_FetchRetryBudget ==
    /\ [](\A r \in RepoList :
            /\ AttemptsMade(r) <= Retries
            /\ ~Returned(r) => (attempt[r] < Retries /\ futures[r].data = EmptyDict)
            /\ Returned(r) =>
                \/ futures[r].data = FetchedData(r)
                \/ futures[r].data = EmptyDict /\ attempt[r] = Retries)
    /\ [][\A r \in RepoList :
            Returned(r) => /\ attempt'[r] = attempt[r]
                           /\ futures'[r].data = futures[r].data]_vars
    /\ <>(\A r \in RepoList : Returned(r))

\* one fetch has returned data after failed attempts, another has failed
\* five times
C21_Witness ==
    \E r, q \in RepoList :
        /\ Returned(r)
        /\ futures[r].data = FetchedData(r)
        /\ attempt[r] = Retries - 1
        /\ Returned(q)
        /\ attempt[q] = Retries

\* reconciliation has been entered
Reconciling == pc # "idle"

\* C22: while process() or merge_releases runs, and after, every submitted
\* fetch has returned: none is running or pending.
C22_FetchBeforeReconcile ==
    Reconciling => \A r \in RepoList : Returned(r) /\ futures[r].state = "yielded"

\* reconciliation has run on a snapshot a retried fetch contributed to
C22_Witness ==
    /\ pc \in {"processed", "merged"}
    /\ \E r \in RepoList : attempt[r] > 0
    /\ \A r \in RepoList : Has(results, W02) /\ Has(fetched, r)

\* what the fetch of repo delivers to the shared maps
Delivered(repo) ==
    [pulls |-> PullsOf(RemoteCommits, repo),
     tags |-> TagsOf(RemoteCommits, RemoteTags, repo, FALSE),
     branches |-> {MainBranch}]

\* C23: a step of a fetch task changes nothing but the attempt count and
\* the future of its own repository; the shared result changes only when
\* the coordinating loop takes a completed future, by the entry of that
\* repository; and whatever the interleaving, the result returned holds for
\* every repository exactly what its fetch delivered.
C23_TasksShareNothing ==
    /\ [][\A r \in RepoList :
            (attempt'[r] # attempt[r] \/ futures'[r].data # futures[r].data)
            => /\ fetched' = fetched
               /\ ~Returned(r)
               /\ \A q \in RepoList \ {r} :
                    attempt'[q] = attempt[q] /\ futures'[q] = futures[q]]_vars
    /\ [][fetched' # fetched
            => \E r \in RepoList :
                /\ fpc = "collecting"
                /\ futures[r].state = "done"
                /\ futures'[r].state = "yielded"
                /\ fetched' = Put(fetched, r, Delivered(r))]_vars
    /\ [](fpc = "returned"
            => /\ Range(fetched.keys) = RepoList
               /\ Len(fetched.keys) = Cardinality(RepoList)
               /\ \A r \in RepoList : fetched.val[r] = Delivered(r))

\* the result has been returned after the futures completed in an order
\* other than the order of submission
C23_Witness ==
    /\ fpc = "returned"
    /\ fetched.keys = <<"utils", "afw", "base">>
    /\ attempt["afw"] > 0

-----------------------------------------------------------------------------
(* GitHubData.get_pull_requests and get_tags over the nodes of one           *)
(* repository, followed by process()                                         *)

Master == <<"m", "a", "s", "t", "e", "r">>
VRelBranch == <<"v", "2", "3", ".", "0", ".", "x">>
TicketsPrefix == <<"t", "i", "c", "k", "e", "t", "s", "/">>
HeadDM200 == <<"D", "M", "-", "2", "0", "0">>
HeadDM300 == <<"D", "M", "-", "3", "0", "0">>

\* mergeCommit: null
NoCommit == [oid |-> NoOid, committedDate |-> NoDate]

\* the pull request the correction table names
PatchedUrl == <<"summit_utils", "pull", 26>>

\* conf.py patch_merges: url -> the merge commit GitHub does not report
patch_merges ==
    Put(EmptyDict, PatchedUrl, [oid |-> OidOf(2), committedDate |-> DayOf(2)])

\* number of characters of s from position i up to the next "/"
RECURSIVE SegmentRun(_, _)
SegmentRun(s, i) ==
    IF i >= 1 /\ i <= Len(s) /\ s[i] # "/" THEN 1 + SegmentRun(s, i + 1) ELSE 0

\* get_pull_requests lines 136-137: mergedBranch.split('/')[1]
merged_branch(head) ==
    IF StartsWith(head, TicketsPrefix)
    THEN SubSeq(head, Len(TicketsPrefix) + 1,
                Len(TicketsPrefix) + SegmentRun(head, Len(TicketsPrefix) + 1))
    ELSE head

\* get_pull_requests lines 118-121: the branch a base ref is filed under
base_branch(baseRefName) ==
    LET Stripped(branch) ==
            IF StartsWith(branch, <<"v">>) THEN RemoveChar(branch, "v")
            ELSE branch
    IN  Stripped(IF baseRefName = Master THEN MainBranch ELSE baseRefName)

\* get_pull_requests lines 130-141: (oid, committedDate) of a node
merge_commit(r) ==
    IF Has(patch_merges, r.url) THEN patch_merges.val[r.url]
    ELSE IF r.mergeCommit # NoCommit THEN r.mergeCommit
    ELSE [oid |-> NoOid, committedDate |-> r.mergedAt]

\* a loop body that keeps the record already filed under the date
PullNode_first(acc, r) ==
    LET Filed(branch, commit) ==
            [branches |-> IF branch \in Range(acc.branches) THEN acc.branches
                          ELSE Append(acc.branches, branch),
             pulls |->
                 IF \/ commit.committedDate = NoDate
                    \/ \E p \in acc.pulls :
                          p.branch = branch /\ p.date = commit.committedDate
                 THEN acc.pulls
                 ELSE acc.pulls
                      \cup {[branch |-> branch, date |-> commit.committedDate,
                             head |-> merged_branch(r.headRefName),
                             oid |-> commit.oid, url |-> r.url,
                             title |-> r.title]}]
    IN  Filed(base_branch(r.baseRefName), merge_commit(r))

\* get_pull_requests lines 117-147, the body of the loop over the nodes;
\* acc = [pulls (the records of all branches), branches]
PullNode(acc, r) ==
    LET Filed(branch, commit) ==
            [branches |-> IF branch \in Range(acc.branches) THEN acc.branches
                          ELSE Append(acc.branches, branch),
             pulls |->
                 IF commit.committedDate = NoDate THEN acc.pulls
                 ELSE {p \in acc.pulls :
                          ~(p.branch = branch /\ p.date = commit.committedDate)}
                      \cup {[branch |-> branch, date |-> commit.committedDate,
                             head |-> merged_branch(r.headRefName),
                             oid |-> commit.oid, url |-> r.url,
                             title |-> r.title]}]
    IN  Filed(base_branch(r.baseRefName), merge_commit(r))

\* get_pull_requests: (pull_requests, branches) of the nodes of a query
RECURSIVE get_pull_requests(_, _)
get_pull_requests(nodes, acc) ==
    IF nodes = <<>> THEN acc
    ELSE get_pull_requests(Tail(nodes), PullNode(acc, Head(nodes)))

\* get_tags line 230: r["target"]["oid"] of a lightweight tag whose target
\* is no commit raises KeyError
get_tags_raises(refs) ==
    \E i \in 1..Len(refs) : refs[i].tagger = NoDate /\ refs[i].oid = NoOid

\* the bound on the pull-request nodes of a query
MaxNodes == 2

\* the i-th pull-request node of a query: a merged pull request, one
\* merged without a merge commit, an open one, and the corrected one
NodeKinds == {"merged1", "merged2", "nocommit", "open", "patched"}

\* every pull request comes from a ticket branch of its own
RawHead(i) ==
    TicketsPrefix \o (CASE i = 1 -> HeadDM100 [] i = 2 -> HeadDM200
                         [] OTHER -> HeadDM300)

RawNode(base, kind, i) ==
    [baseRefName |-> base, headRefName |-> RawHead(i), title |-> TitlePlain,
     url |-> IF kind = "patched" THEN PatchedUrl ELSE Url("afw", i),
     mergedAt |-> CASE kind = "merged1" -> DayOf(1)
                    [] kind \in {"merged2", "nocommit"} -> DayOf(2)
                    [] OTHER -> NoDate,
     mergeCommit |->
         CASE kind = "merged1" -> [oid |-> OidOf(1), committedDate |-> DayOf(1)]
           [] kind = "merged2" -> [oid |-> OidOf(2), committedDate |-> DayOf(2)]
           [] OTHER -> NoCommit]

RawBases == {MainBranch, Master, VRelBranch}

NodeLists ==
    UNION {{[i \in 1..n |-> RawNode(b[i], k[i], i)] :
               b \in [1..n -> RawBases], k \in [1..n -> NodeKinds]} :
           n \in 0..MaxNodes}

\* a tag node: lightweight or annotated on a commit, annotated on a target
\* that is no commit, lightweight on a target that is no commit
RefKinds == {"light", "annotated", "nocommit", "bare"}

RawRef(name, kind, i) ==
    CASE kind \in {"light", "annotated"} -> RefNode(name, i, kind = "annotated")
      [] kind = "nocommit" ->
            [name |-> name, oid |-> NoOid, committedDate |-> NoDate,
             tagger |-> DayOf(i) + 1]
      [] kind = "bare" ->
            [name |-> name, oid |-> NoOid, committedDate |-> NoDate,
             tagger |-> NoDate]

\* w.2023.01 on the first commit, then w.2023.02 on the second
RefLists ==
    {<<>>} \cup {<<RawRef(W01, k, 1)>> : k \in RefKinds}
           \cup {<<RawRef(W01, k[1], 1), RawRef(W02, k[2], 2)>> :
                    k \in [1..2 -> RefKinds]}

InitBatch ==
    /\ TagIdle
    /\ ProcessIdle
    /\ attempt = <<>> /\ futures = <<>> /\ fetched = EmptyDict
    /\ fpc = "idle"
    /\ remote \in [pulls : NodeLists, refs : RefLists]

NoPulls == [pulls |-> {}, branches |-> <<>>]

\* _fetch lines 292-303 and _get_package_repos lines 351-364: both queries
\* succeed and the repository enters the result
FetchRepo ==
    /\ fpc = "idle"
    /\ ~get_tags_raises(remote.refs)
    /\ LET Store(pr) ==
               Put(EmptyDict, "afw",
                   [pulls |-> pr.pulls,
                    tags |-> [i \in 1..Len(remote.refs) |->
                                 get_tags(remote.refs[i])],
                    branches |-> pr.branches])
       IN  fetched' = Store(get_pull_requests(remote.pulls, NoPulls))
    /\ fpc' = "returned"
    /\ UNCHANGED <<attempt, futures>>
    /\ PipelineIdle

\* _fetch lines 292-306 and _get_package_repos line 357: get_tags raises
\* on every attempt, the task returns the empty dict and data["repo"]
\* raises KeyError
FetchRepoRaises ==
    /\ fpc = "idle"
    /\ get_tags_raises(remote.refs)
    /\ fpc' = "raised"
    /\ UNCHANGED <<attempt, futures, fetched>>
    /\ PipelineIdle

NextBatch ==
    \/ FetchRepo \/ FetchRepoRaises \/ StartProcess \/ ProcessPkg
    \/ ProcessReturn

SpecBatch == InitBatch /\ [][NextBatch]_vars

-----------------------------------------------------------------------------
(* C24 *)

\* the records C24 calls skipped: a tag node whose target has no commit, a
\* pull-request node without merge commit
SkippedRef(r) == r.oid = NoOid
SkippedNode(r) == r.mergeCommit = NoCommit

WithoutSkipped(rem) ==
    [pulls |-> SelectSeq(rem.pulls, LAMBDA r : ~SkippedNode(r)),
     refs |-> SelectSeq(rem.refs, LAMBDA r : ~SkippedRef(r))]

\* the time the run read from the clock
RunTime == IF Has(tag_dates, TildeMain) THEN tag_dates.val[TildeMain] ELSE Now

\* results and tag_dates of process() on the nodes of one repository, run
\* at the same time
ProcessOutput(rem, release) ==
    LET Returned24(r) ==
            IF release = WEEKLY /\ r.main # <<>>
            THEN [results |-> Put(r.results, TildeMain, r.main),
                  tag_dates |-> Put(r.tag_dates, TildeMain, RunTime)]
            ELSE [results |-> r.results, tag_dates |-> r.tag_dates]
    IN  Returned24(process_pkg(Put(EmptyDict, Untagged, <<>>), EmptyDict, <<>>,
                    "afw",
                    [i \in 1..Len(rem.refs) |-> get_tags(rem.refs[i])],
                    get_pull_requests(rem.pulls, NoPulls).pulls,
                    release, W02))

HasSkipped == WithoutSkipped(remote) # remote

\* C24: a tag record with an absent target or a pull-request record with an
\* absent merge-commit id is skipped alone: no error is raised and the
\* output of process() is the output for the batch without the record
C24_AbsentRecordsSkipped ==
    /\ fpc # "raised"
    /\ pc = "processed" =>
          [results |-> results, tag_dates |-> tag_dates]
              = ProcessOutput(WithoutSkipped(remote), releaseType)

\* the part of C24 that holds: tag records that reach _process_tags without
\* a commit, and pull requests with neither merge commit nor merged-at date
\* nor correction, leave the output as it is without them
Dropped24(rem) ==
    [pulls |-> SelectSeq(rem.pulls,
                   LAMBDA r : merge_commit(r).committedDate # NoDate),
     refs |-> SelectSeq(rem.refs, LAMBDA r : ~SkippedRef(r))]

C24_DatelessRecordsSkipped ==
    pc = "processed" =>
        [results |-> results, tag_dates |-> tag_dates]
            = ProcessOutput(Dropped24(remote), releaseType)

C24_DatelessWitness ==
    /\ pc = "processed" /\ releaseType = WEEKLY
    /\ Dropped24(remote) # remote
    /\ Len(Dropped24(remote).pulls) > 0 /\ Len(Dropped24(remote).refs) > 0
    /\ Len(results.keys) > 1

-----------------------------------------------------------------------------
(* C28 *)

\* the pull requests get_pull_requests returned for the repository
PullRequests == fetched.val["afw"].pulls

\* the branch a base ref is normalized to
NormalBranch(b) ==
    IF b = Master THEN MainBranch
    ELSE IF b # <<>> /\ b[1] = "v" THEN RemoveChar(b, "v") ELSE b

\* the i-th node has neither merge commit nor merged-at date nor correction
Omitted(i) ==
    /\ remote.pulls[i].mergeCommit = NoCommit
    /\ remote.pulls[i].mergedAt = NoDate
    /\ ~Has(patch_merges, remote.pulls[i].url)

SameSlot(i, j) ==
    /\ NormalBranch(remote.pulls[i].baseRefName)
           = NormalBranch(remote.pulls[j].baseRefName)
    /\ merge_commit(remote.pulls[i]).committedDate
           = merge_commit(remote.pulls[j]).committedDate

\* a later-listed pull request of the same branch has the same date
Superseded(i) ==
    \E j \in (i + 1)..Len(remote.pulls) : ~Omitted(j) /\ SameSlot(i, j)

\* the records that come from the i-th node, under any branch and date
RecordsOf(i) ==
    {p \in PullRequests :
        /\ p.url = remote.pulls[i].url
        /\ TicketsPrefix \o p.head = remote.pulls[i].headRefName}

\* C28: per normalized base branch at most one pull request per committed
\* date, the later-listed one; a pull request with neither merge commit nor
\* merged-at date nor correction is omitted; every other pull request
\* appears exactly once, under its branch
C28_OnePullPerTimestamp ==
    fpc = "returned" =>
        /\ \A p, q \in PullRequests :
              p.branch = q.branch /\ p.date = q.date => p = q
        /\ \A i \in 1..Len(remote.pulls) :
              IF Omitted(i) \/ Superseded(i) THEN RecordsOf(i) = {}
              ELSE /\ Cardinality(RecordsOf(i)) = 1
                   /\ \A p \in RecordsOf(i) :
                         /\ p.branch = NormalBranch(remote.pulls[i].baseRefName)
                         /\ p.date = merge_commit(remote.pulls[i]).committedDate
        /\ PullRequests = UNION {RecordsOf(i) : i \in 1..Len(remote.pulls)}

\* a pull request into master and a later one into main with the same
\* committed date
C28_Witness ==
    /\ fpc = "returned"
    /\ \E i, j \in 1..Len(remote.pulls) :
          /\ i < j
          /\ remote.pulls[i].baseRefName = Master
          /\ remote.pulls[j].baseRefName = MainBranch
          /\ ~Omitted(i) /\ Superseded(i)
          /\ RecordsOf(i) = {} /\ RecordsOf(j) # {}

-----------------------------------------------------------------------------
(* C25: process() and merge_releases run a second time on the snapshot *)

\* two repositories with up to MaxTags lightweight tags
InitTwice ==
    /\ TagIdle
    /\ FetchIdle
    /\ releaseType \in {WEEKLY, REGULAR}
    /\ \E commits \in RowLists :
        \E T \in TagSets(commits, releaseType) :
            /\ order = PkgsOf(commits)
            /\ tags = [p \in {order[i] : i \in 1..Len(order)} |->
                          TagsOf(commits, T, p, FALSE)]
            /\ pulls = [p \in {order[i] : i \in 1..Len(order)} |->
                           PullsOf(commits, p)]
    /\ last_weekly = W02
    /\ idx = 0
    /\ results = Put(EmptyDict, Untagged, <<>>)
    /\ tag_dates = EmptyDict
    /\ main = <<>>
    /\ merged = NoMerge
    /\ flags = NoFlags
    /\ pc = "process"
    /\ prev = NoOutput

\* create_changelog lines 484-490: process() is called again on the same
\* ChangeLogData for the same cadence, after merge_releases when the cadence
\* is regular; process lines 157-160 start from empty dicts
Rerun ==
    /\ prev = NoOutput
    /\ \/ pc = "merged"
       \/ pc = "processed" /\ releaseType = WEEKLY
    /\ prev' = [pc |-> pc, results |-> results, tag_dates |-> tag_dates,
                merged |-> merged, flags |-> flags]
    /\ idx' = 0
    /\ results' = Put(EmptyDict, Untagged, <<>>)
    /\ tag_dates' = EmptyDict
    /\ main' = <<>>
    /\ merged' = NoMerge
    /\ flags' = NoFlags
    /\ pc' = "process"
    /\ UNCHANGED <<remote, fetchVars, raw1, raw2, tag1, tag2, tpc, tags, pulls,
                   releaseType, order, last_weekly>>

NextTwice == ProcessPkg \/ ProcessReturn \/ MergeReleases \/ Rerun

SpecTwice == InitTwice /\ [][NextTwice]_vars

\* the second run has come to where the first one ended, with the same
\* arguments
RanTwice == prev # NoOutput /\ pc = prev.pc /\ flags = prev.flags

\* a dict of release dates without the entry of "~main"
WithoutMain(d) ==
    [keys |-> SelectSeq(d.keys, LAMBDA k : k # TildeMain),
     val |-> [k \in DOMAIN d.val \ {TildeMain} |-> d.val[k]]]

-----------------------------------------------------------------------------
(* C26 *)

\* every key of the output that lists the contributor
KeysHolding(c) == {rel \in DOMAIN results.val : HeldIn(rel, c)}

\* the tagged merges of p's branch at or after p
TaggedFrom(pkg, p) ==
    {q \in pulls[pkg] :
        /\ q.branch = p.branch
        /\ q.date >= p.date
        /\ ReleaseTagsAt(pkg, q.oid) # {}}

\* the releases C26 allows for p: the tags of the nearest tagged merge at
\* or after p, "~untagged" when there is none
NearestReleases(pkg, p) ==
    IF TaggedFrom(pkg, p) = {} THEN {Untagged}
    ELSE UNION {ReleaseTagsAt(pkg, q.oid) :
                   q \in {r \in TaggedFrom(pkg, p) :
                             \A o \in TaggedFrom(pkg, p) : r.date <= o.date}}

\* C26: every ticketed merge on a valid branch is listed under exactly one
\* key of the output of process(): the tag of the nearest tagged merge at or
\* after it on its branch of its repository, "~untagged" when there is none
C26_OneReleaseKey ==
    Processed =>
    \A x \in AllPulls :
        (BranchAccepted(x[2].branch) /\ Ticketed(x[2]))
        => /\ Cardinality(KeysHolding(Contributor(x[1], x[2]))) = 1
           /\ KeysHolding(Contributor(x[1], x[2])) \subseteq
                  NearestReleases(x[1], x[2])

\* C26 with the "~main" table of a weekly run beside the one release: it
\* repeats merges of the default branch that are listed under "~untagged"
C26_OneReleaseKeyBesideMain ==
    Processed =>
    \A x \in AllPulls :
        (BranchAccepted(x[2].branch) /\ Ticketed(x[2]))
        => /\ Cardinality(AttributedTo(Contributor(x[1], x[2]))) = 1
           /\ AttributedTo(Contributor(x[1], x[2])) \subseteq
                  NearestReleases(x[1], x[2])
           /\ HeldIn(TildeMain, Contributor(x[1], x[2]))
                  => /\ releaseType = WEEKLY
                     /\ x[2].branch = MainBranch
                     /\ HeldIn(Untagged, Contributor(x[1], x[2]))

\* a merge under a later tag of its branch, an untagged merge on a branch
\* walked after a branch that ended in a release, and a merge in "~main"
C26_Witness ==
    /\ Processed
    /\ \E x, y \in AllPulls :
          /\ x[1] = y[1]
          /\ Ticketed(x[2]) /\ Ticketed(y[2])
          /\ BranchAccepted(x[2].branch) /\ BranchAccepted(y[2].branch)
          /\ x[2].branch # y[2].branch
          /\ AttributedTo(Contributor(x[1], x[2])) = {Untagged}
          /\ Untagged \notin AttributedTo(Contributor(y[1], y[2]))

-----------------------------------------------------------------------------
(* C27: two tags on one merge commit *)

\* the names a release manager may put on one commit
PairNames ==
    {RC1, VFIN, W01, W02,
     MkRegular(FALSE, 23, 1, Absent, Absent, "."),
     MkRegular(FALSE, 23, 1, Absent, MaxRc, "."),
     MkRegular(FALSE, 23, 1, 1, MaxRc - 100, ".")}

\* one repository with two pull requests merged into main
PairCommits ==
    <<[pkg |-> "afw", branch |-> MainBranch, kind |-> "T100"],
      [pkg |-> "afw", branch |-> MainBranch, kind |-> "T100"]>>

\* ChangeLogData.__init__ and process lines 157-160: two lightweight tags
\* listed in either order, both on the second merge commit
InitPair ==
    /\ TagIdle
    /\ FetchIdle
    /\ releaseType \in {WEEKLY, REGULAR}
    /\ order = <<"afw">>
    /\ \E a, b \in PairNames :
          /\ a # b
          /\ tags = [p \in {"afw"} |->
                        <<get_tags(RefNode(a, 2, FALSE)),
                          get_tags(RefNode(b, 2, FALSE))>>]
    /\ pulls = [p \in {"afw"} |-> PullsOf(PairCommits, p)]
    /\ last_weekly = W02
    /\ idx = 0
    /\ results = Put(EmptyDict, Untagged, <<>>)
    /\ tag_dates = EmptyDict
    /\ main = <<>>
    /\ merged = NoMerge
    /\ flags = NoFlags
    /\ pc = "process"
    /\ prev = NoOutput

NextPair == ProcessPkg \/ ProcessReturn

SpecPair == InitPair /\ [][NextPair]_vars

\* the release name of a raw tag name
ReleaseName(raw) ==
    IF raw # <<>> /\ raw[1] = "v" /\ is_regular(Tag(raw))
    THEN RemoveChar(raw, "v") ELSE raw

\* the valid tags of the processed cadence on the commit
CadenceNamesAt(pkg, oid) ==
    {n \in {ReleaseName(t.name) : t \in {u \in Range(tags[pkg]) : u.oid = oid}} :
        is_valid(Tag(n)) /\ matches_release(Tag(n), releaseType)}

HasRc(name) == \E i \in 1..Len(name) : LitAt(name, i, <<"r", "c">>)

\* the order of releases: by year and week; by major, minor, patch and
\* candidate number, the final tag after every candidate
OrderOf(name) ==
    IF Tag(name).is_weekly THEN <<Tag(name).year, Tag(name).week>>
    ELSE SeriesOf(Tag(name))
         \o <<IF HasRc(name) THEN Tag(name).rc ELSE MaxRc + 1>>

LowestOf(names) ==
    CHOOSE n \in names : \A o \in names \ {n} : LexLess(OrderOf(n), OrderOf(o))

\* C27: when several valid tags of the cadence point at one merge commit,
\* that merge and the earlier merges of its window are listed under the
\* lowest-ordered of the tags, and the repository opens no release for the
\* higher-ordered ones
C27_LowestTagTakesWindow ==
    Processed =>
    \A x \in AllPulls :
        Cardinality(CadenceNamesAt(x[1], x[2].oid)) > 1
        => /\ \A y \in AllPulls :
                 (x[1] = y[1] /\ y[2].branch = x[2].branch
                     /\ y[2].date <= x[2].date)
                 => AttributedTo(Contributor(y[1], y[2]))
                        = {LowestOf(CadenceNamesAt(x[1], x[2].oid))}
           /\ \A h \in CadenceNamesAt(x[1], x[2].oid) :
                 h # LowestOf(CadenceNamesAt(x[1], x[2].oid))
                     => ~Has(results, h)

-----------------------------------------------------------------------------
(* C29 *)

DailyShaped ==
    {<<"d", ".", "2", "0", "2", "3", ".", "0", "1", ".", "0", "2">>,
     <<"w", ".", "2", "0", "2", "3", ".", "0", "1", ".", "0", "2">>}

\* C29: no raw name is classified as daily: the names of the daily shape
\* are invalid, no constructed Tag is a valid daily tag, and
\* matches_release(tag, DAILY) is false for every tag
C29_NeverDaily ==
    tpc # "first" =>
        /\ raw1 \in DailyShaped => ~is_valid(tag1)
        /\ ~tag1.is_daily
        /\ ~is_daily(tag1)
        /\ ~matches_release(tag1, DAILY)

\* the part of C29 about the grammars: nothing is parsed as daily, and only
\* a name ending in "main" matches the daily cadence
C29_NeverParsedDaily ==
    tpc # "first" =>
        /\ raw1 \in DailyShaped => ~is_valid(tag1)
        /\ ~tag1.is_daily
        /\ matches_release(tag1, DAILY) <=> tag1.is_main

====
